---- MODULE Spec2Model ----
(***************************************************************************)
(* Model of the MIG-Flash dumper: src/src/mig/mig_flash.py (BlockDevice,   *)
(* XCIHeader, MIGFlash) and src/src/mig/mig_gui_interface.py               *)
(* (MIGController).                                                        *)
(*                                                                         *)
(* Byte counts are measured in sectors of 0x200 bytes, so that             *)
(* valid_data_end * 0x200 bytes is valid_data_end sectors.  The chunk size *)
(* of dump_xci and the size of a GiB are scaled down (ChunkSize, GiB) to   *)
(* keep the dump loops short.                                              *)
(*                                                                         *)
(* Specifications:                                                         *)
(*   SpecSession  one caller driving a MIGFlash session synchronously      *)
(*   SpecHeader   authenticate on every capacity code: the derived sizes   *)
(*   SpecMonitor  the monitor thread of MIGController polling a device     *)
(*   SpecStartStop  start_monitoring / stop_monitoring and their threads   *)
(*   SpecProgress the progress callback of a dump worker and the clock     *)
(*   SpecIO       seek/read interleavings on the shared BlockDevice        *)
(*   SpecWrite    write_sector calls on a BlockDevice                      *)
(*   SpecDumps    two dump workers and a disconnect on the BlockDevice     *)
(*   Spec         MIGController: GUI calls, workers, monitor               *)
(*   SpecSync     MIGController: its synchronous calls, one thread         *)
(*   SpecDumpLoop the loop of dump_xci, its passes counted, run fairly     *)
(***************************************************************************)
EXTENDS Integers, Sequences, FiniteSets, TLC

(***************************************************************************)
(* Bounds of the model.                                                    *)
(***************************************************************************)
ChunkSize == 2
GiB == 3
MaxVde == 4
MaxLength == 2
MaxWorkers == 2
MaxMonitors == 3
MaxClock == 400
MaxSector == 2
MaxCalls == 4

(***************************************************************************)
(* Program constants.                                                      *)
(***************************************************************************)
SECTOR_SIZE == 512
XCI_HEADER_OFFSET == 1048576
XCI_HEADER_SIZE == 512
XCI_DATA_OFFSET == 2097152

HEAD == <<72, 69, 65, 68>>
ZERO4 == <<0, 0, 0, 0>>
GPT_MSDATA_GUID == "EBD0A0A2-B9E5-4433-87C0-68B6B72699C7"

VARIABLES
    mig,        \* the MIGFlash session (MIGController._mig in Spec)
    dev,        \* what the adapter presents: partition signature, header region
    call,       \* SpecSession: the last call of the caller and its outcome
    sdump,      \* SpecSession: the dump_xci call in progress
    state,      \* MIGController._state
    cached,     \* MIGController._cart_info / _xci_header are not None
    has_mig,    \* MIGController._mig is not None
    lock,       \* MIGController._lock: 0, or the worker that holds it
    abort_flag, \* MIGController._abort_flag
    monitoring, \* MIGController._monitoring
    workers,    \* the threads started by the *_async calls
    mon,        \* the monitor thread: pc, was_connected, had_cart
    samples,    \* SpecMonitor: the values of cart_inserted the monitor polled
    edges,      \* SpecMonitor: the cartridge events it emitted, each with the
                \* number of samples taken when it was emitted
    lost,       \* SpecMonitor: the monitor has seen the device disconnect
    mt,         \* SpecStartStop: the monitor threads, _monitor_thread
    pt,         \* SpecProgress: the clock and the locals of on_progress
    bio         \* SpecIO: the BlockDevice position, the lock, the threads

vars == <<mig, dev, call, sdump, state, cached, has_mig, lock, abort_flag,
         monitoring, workers, mon, samples, edges, lost, mt, pt,
         bio>>

sessionVars == <<mig, call, sdump>>
controllerVars ==
    <<state, cached, has_mig, lock, abort_flag, monitoring, workers>>
monitorVars == <<mon, samples, edges, lost, mt, pt>>

(***************************************************************************)
(* Header region of the device, as read_at(XCI_HEADER_OFFSET, ...) returns *)
(* it: len bytes; first4 = bytes 0..3, magic = bytes 0x100..0x103,         *)
(* card_size = byte 0x10D, vde = bytes 0x118..0x11F.                       *)
(***************************************************************************)
Buf(first4, magic, code, v) ==
    [len |-> XCI_HEADER_SIZE, first4 |-> first4, magic |-> magic,
     card_size |-> code, vde |-> <<v, 0, 0, 0, 0, 0, 0, 0>>]

\* struct.unpack('<Q', ...): little-endian decoding of a byte string
RECURSIVE unpack_le(_)
unpack_le(bytes) ==
    IF bytes = <<>> THEN 0 ELSE Head(bytes) + 256 * unpack_le(Tail(bytes))

NoHeader ==
    [set |-> FALSE, magic |-> <<>>, game_card_size |-> 0, valid_data_end |-> 0]

\* XCIHeader.from_bytes: "ValueError" for a short buffer, else the fields
from_bytes(data) ==
    IF data.len < XCI_HEADER_SIZE THEN [r |-> "ValueError", h |-> NoHeader]
    ELSE [r |-> "ok",
          h |-> [set |-> TRUE, magic |-> data.magic,
                 game_card_size |-> data.card_size,
                 valid_data_end |-> unpack_le(data.vde)]]

is_valid(h) == h.magic = HEAD

\* a table whose entries for 0xE1 and 0xE2 are exchanged
sizes_swapped(code) ==
    CASE code = 250 -> 1
      [] code = 248 -> 2
      [] code = 240 -> 4
      [] code = 224 -> 8
      [] code = 225 -> 32
      [] code = 226 -> 16
      [] OTHER -> 0

\* the table of XCIHeader.cart_size_bytes, in GiB: sizes.get(code, 0)
sizes(code) ==
    CASE code = 250 -> 1
      [] code = 248 -> 2
      [] code = 240 -> 4
      [] code = 224 -> 8
      [] code = 225 -> 16
      [] code = 226 -> 32
      [] OTHER -> 0

cart_size_bytes(h) == sizes(h.game_card_size) * GiB

\* Exact byte counts (Python integers have no width): a natural number as
\* the sequence of its digits in base 10000, least significant first.
RECURSIVE BigOf(_)
BigOf(n) == IF n = 0 THEN <<>> ELSE <<n % 10000>> \o BigOf(n \div 10000)

RECURSIVE BigMul(_, _, _)
BigMul(big, k, carry) ==
    IF big = <<>> THEN BigOf(carry)
    ELSE LET p == Head(big) * k + carry IN
         <<p % 10000>> \o BigMul(Tail(big), k, p \div 10000)

\* cart_size_bytes in bytes: n * 1024 * 1024 * 1024
exact_cart_size_bytes(h) ==
    BigMul(BigMul(BigMul(BigOf(sizes(h.game_card_size)), 1024, 0), 1024, 0),
           1024, 0)

\* the used size get_xci_size and authenticate report: valid_data_end * 0x200
exact_trimmed_size(h) == BigMul(BigOf(h.valid_data_end), SECTOR_SIZE, 0)

(***************************************************************************)
(* MIGFlash.  device is "None", "Open" or "Closed" (a BlockDevice object   *)
(* that is not opened); fw is the cached firmware version.                 *)
(***************************************************************************)
NoInfo == [set |-> FALSE, authenticated |-> FALSE, size |-> 0, trimmed_size |-> 0]

NewMIGFlash ==
    [device |-> "None", connected |-> FALSE, fw |-> "None",
     cart_info |-> NoInfo, xci_header |-> NoHeader]

\* a close() that leaves the handle open
BlockDevice_close_noop(device) == [device |-> device, closes |-> 0]

\* a close() that does not test _opened
BlockDevice_close_unguarded(device) == [device |-> "Closed", closes |-> 1]

\* BlockDevice.close of a BlockDevice object: the object afterwards and the
\* number of times the handle was closed; nothing happens unless _opened
BlockDevice_close(device) ==
    IF device # "Open" THEN [device |-> device, closes |-> 0]
    ELSE [device |-> "Closed", closes |-> 1]

\* a disconnect that keeps the cached CartridgeInfo
MIGFlash_disconnect_keeps_info(m) ==
    [NewMIGFlash EXCEPT !.cart_info = m.cart_info]

MIGFlash_disconnect(m) == NewMIGFlash

\* the number of times MIGFlash.disconnect closes a handle
disconnect_closes(m) ==
    IF m.device = "None" THEN 0 ELSE BlockDevice_close(m.device).closes

\* MIGFlash.connect: found = a device path is known, opened = open() succeeds,
\* sig = the 16 bytes at GPT_PARTITION_OFFSET ("" when the read fails),
\* fwok = the firmware read succeeds.  opens and closes are the number of
\* times the handle of the BlockDevice this call creates was opened and
\* closed, msg is the message of the ConnectionError.
MIGFlash_connect(m, found, opened, sig, fwok) ==
    LET m1 == IF m.connected THEN MIGFlash_disconnect(m) ELSE m IN
    IF ~found
    THEN [m |-> m1, r |-> "ConnectionError", opens |-> 0, closes |-> 0,
          msg |-> "No MIG-Flash device found"]
    ELSE IF ~opened
    THEN LET c == BlockDevice_close("Closed") IN
         [m |-> [m1 EXCEPT !.device = c.device], r |-> "ConnectionError",
          opens |-> 0, closes |-> c.closes,
          msg |-> "Failed to connect: OSError"]
    ELSE IF sig # GPT_MSDATA_GUID
    THEN LET c1 == BlockDevice_close("Open")
             c2 == BlockDevice_close(c1.device)
         IN  [m |-> [m1 EXCEPT !.device = c2.device], r |-> "ConnectionError",
              opens |-> 1, closes |-> c1.closes + c2.closes,
              msg |-> "Failed to connect: Device is not a valid MIG-Flash"]
    ELSE [m |-> [m1 EXCEPT !.device = "Open", !.connected = TRUE,
                           !.fw = IF fwok THEN "Ver" ELSE "Unknown"],
          r |-> "True", opens |-> 1, closes |-> 0, msg |-> ""]

\* Outcome of a BlockDevice.read_at: the data, or an OSError
RdOk(data) == [err |-> FALSE, data |-> data]
RdErr == [err |-> TRUE, data |-> <<>>]

\* the presence test that lets every session pass
cart_inserted_always(m, rd) == TRUE

\* MIGFlash.cart_inserted: rd = outcome of the 4-byte read at the header offset
cart_inserted(m, rd) ==
    IF ~m.connected THEN FALSE
    ELSE IF rd.err THEN FALSE
    ELSE rd.data = HEAD

\* a poll that stores its result in the session
cart_inserted_caches(m, rd) ==
    [m EXCEPT !.cart_info = [NoInfo EXCEPT !.set = TRUE]]

\* the session after MIGFlash.cart_inserted: the property assigns nothing
cart_inserted_session(m, rd) == m

cart_authenticated(m) == m.cart_info.set /\ m.cart_info.authenticated

\* MIGFlash.authenticate: rd4 = outcome of the presence read, rd = outcome of
\* the read of the header region; reads is the number of reads of the whole
\* header region it issued, msg the message of its exception
MIGFlash_authenticate(m, rd4, rd) ==
    IF ~m.connected
    THEN [m |-> m, r |-> "ConnectionError", reads |-> 0, msg |-> "Not connected"]
    ELSE IF ~cart_inserted(m, rd4)
    THEN [m |-> m, r |-> "RuntimeError", reads |-> 0,
          msg |-> "No cartridge inserted"]
    ELSE IF rd.err THEN [m |-> m, r |-> "False", reads |-> 1, msg |-> ""]
    ELSE LET p == from_bytes(rd.data) IN
         IF p.r # "ok" THEN [m |-> m, r |-> "False", reads |-> 1, msg |-> ""]
         ELSE IF is_valid(p.h)
              THEN [m |-> [m EXCEPT !.xci_header = p.h,
                                    !.cart_info =
                                        [set |-> TRUE, authenticated |-> TRUE,
                                         size |-> cart_size_bytes(p.h),
                                         trimmed_size |-> p.h.valid_data_end]],
                    r |-> "True", reads |-> 1, msg |-> ""]
              ELSE [m |-> [m EXCEPT !.xci_header = p.h], r |-> "False",
                    reads |-> 1, msg |-> ""]

\* MIGFlash.get_xci_header: authenticates when the session is not authenticated
get_xci_header(m, rd4, rd) ==
    IF cart_authenticated(m) THEN [m |-> m, r |-> "ok"]
    ELSE LET a == MIGFlash_authenticate(m, rd4, rd) IN
         IF a.r = "True" THEN [m |-> a.m, r |-> "ok"]
         ELSE IF a.r = "False" THEN [m |-> a.m, r |-> "RuntimeError"]
         ELSE [m |-> a.m, r |-> a.r]

\* MIGFlash.get_xci_size: (total_size, trimmed_size) of the cached header;
\* valid_data_end * 0x200 bytes are valid_data_end sectors
get_xci_size(m, rd4, rd) ==
    LET g == get_xci_header(m, rd4, rd) IN
    IF g.r # "ok" THEN [m |-> g.m, r |-> g.r, total |-> 0, used |-> 0]
    ELSE IF g.m.xci_header.set
         THEN [m |-> g.m, r |-> "ok",
               total |-> cart_size_bytes(g.m.xci_header),
               used |-> g.m.xci_header.valid_data_end]
         ELSE [m |-> g.m, r |-> "ok", total |-> 0, used |-> 0]

\* MIGFlash.read_xci up to the device read: the exception raised before any
\* read is issued, or "read" when device.read_at(XCI_DATA_OFFSET + offset,
\* length) is issued
read_xci(m, offset, length) ==
    IF ~cart_authenticated(m) THEN "RuntimeError"
    ELSE IF m.device = "None" THEN "AttributeError"
    ELSE IF m.device = "Closed" THEN "ValueError"
    ELSE "read"

\* The sectors a read of n sectors at image offset off returns
ImageData(off, n) == [i \in 1..n |-> off + i - 1]

Min(a, b) == IF a < b THEN a ELSE b

(***************************************************************************)
(* MIGFlash.dump_xci.  A dump in progress is a record d: dump_size, the    *)
(* loop's offset, the destination file (the sectors written, in order),    *)
(* whether the progress callback was called and its last arguments cb,    *)
(* the largest single write maxw, and passes, the number of passes the     *)
(* loop has made modulo 2 (counted in SpecDumpLoop only).                  *)
(***************************************************************************)
NoDump ==
    [active |-> FALSE, trimmed |-> FALSE, dump_size |-> 0, offset |-> 0,
     file |-> <<>>, called |-> FALSE, cb |-> <<0, 0>>, maxw |-> 0,
     passes |-> 0]

\* dump_xci before the loop: authenticate if needed, sizes, open(filename, 'wb')
dump_begin(m, trimmed, rd4, rd) ==
    LET g == get_xci_size(m, rd4, rd) IN
    IF g.r # "ok" THEN [m |-> g.m, r |-> g.r, d |-> NoDump]
    ELSE [m |-> g.m, r |-> "ok",
          d |-> [NoDump EXCEPT !.active = TRUE, !.trimmed = trimmed,
                               !.dump_size = IF trimmed THEN g.used ELSE g.total]]

\* a loop that always asks for a whole chunk
read_size_whole_chunk(d) == ChunkSize

\* the length of the next chunk read: min(chunk_size, remaining)
read_size(d) == Min(ChunkSize, d.dump_size - d.offset)

\* one pass of the loop body up to the callback: the read returned n sectors
dump_chunk(d, n) ==
    [d EXCEPT !.file = d.file \o ImageData(d.offset, n),
              !.offset = d.offset + n,
              !.maxw = IF n > d.maxw THEN n ELSE d.maxw]

\* progress_callback(offset, dump_size)
dump_progress(d) ==
    [d EXCEPT !.called = TRUE, !.cb = <<d.offset, d.dump_size>>]

\* the loop condition: while offset < dump_size
dump_more(d) == d.offset < d.dump_size

\* a dump_xci that forgets the cartridge when it fails
dump_raise_reset(m) == [m EXCEPT !.cart_info = NoInfo, !.xci_header = NoHeader]

\* the session after an exception has left dump_xci: the with statement
\* closes the file, nothing of the session is touched
dump_raise(m) == m

\* the whole loop of dump_xci when every read returns the length asked for
RECURSIVE dump_loop(_)
dump_loop(d) ==
    IF dump_more(d)
    THEN dump_loop(dump_progress(dump_chunk(d, read_size(d))))
    ELSE [d EXCEPT !.active = FALSE]

(***************************************************************************)
(* A worker thread of connect_async, authenticate_async or dump_xci_async: *)
(* kind, the place pc it has reached ("done" when the thread has ended),   *)
(* the argument trimmed and the dump d of a dump worker, stale (the        *)
(* MIGFlash it is dumping from has been disconnected), the events ev it    *)
(* has emitted, the exception exc that ended or is ending it, the state    *)
(* final it last set, once abort_dump() was called during its transfer     *)
(* (aborted), the number of chunks it has written since (after), and disc  *)
(* (disconnect() was called while the thread was running and no connect    *)
(* has been requested since).                                              *)
(***************************************************************************)
Workers == 1..MaxWorkers

NoWorker ==
    [kind |-> "none", pc |-> "done", trimmed |-> FALSE, d |-> NoDump,
     stale |-> FALSE, ev |-> <<>>, exc |-> "", final |-> "",
     aborted |-> FALSE, after |-> 0, disc |-> FALSE]

\* values of the variables a specification does not use
NoMonitor == [pc |-> "none", was_connected |-> FALSE, had_cart |-> FALSE]
\* the monitor threads that were started: each is "none" (not started), at
\* the "test" of its loop, in its "sleep", in a "pass" or "ended"; thread is
\* self._monitor_thread (0 for None), joining holds while stop_monitoring
\* waits in join
MonitorThreads == 1..MaxMonitors
NoThreads ==
    [threads |-> [i \in MonitorThreads |-> "none"], thread |-> 0,
     joining |-> FALSE]
NoAccess ==
    [pc |-> "idle", want |-> 0, size |-> 0, got |-> 0, done |-> FALSE, n |-> 0,
     file |-> <<>>]
DumpThreads == {"dump", "dump2"}
Threads == DumpThreads \cup {"monitor", "auth"}
\* disk[s] is the data written to sector s, <<>> while the sector holds what
\* the device came with.
\* the BlockDevice of a connected session: its position, the holder of the
\* controller's lock, the reads in progress, the BlockDevice object
\* (device, as in MIGFlash), the number of times its handle was closed and
\* whether a read was issued after the handle was closed
NoIO ==
    [pos |-> 0, lock |-> "", t |-> [x \in Threads |-> NoAccess],
     device |-> "Open", closes |-> 0, onclosed |-> FALSE,
     disk |-> [s \in 0..MaxSector |-> <<>>]]

(***************************************************************************)
(* SpecSession: one caller, one MIGFlash, calls made one after the other.  *)
(* The cartridge may be swapped between any two calls, so every call that  *)
(* reads the header region meets any of the buffers SessionBufs; dev is    *)
(* not used.                                                               *)
(***************************************************************************)
NoDevice == [sig |-> "", hdr |-> Buf(ZERO4, ZERO4, 0, 0)]

\* a call and its outcome: the operation, what it returned or raised (msg is
\* the message of a ConnectionError of connect), its arguments or results a
\* and b, whether it issued a device read, the number of times it closed the
\* handle of the session's device, the call made before it, and the events
\* a call of the controller delivered to the subscriber
NoCall ==
    [op |-> "none", r |-> "", a |-> 0, b |-> 0, issued |-> FALSE,
     closes |-> 0, msg |-> "", prev |-> [op |-> "none", closes |-> 0],
     events |-> <<>>]

\* MIGController._emit_event: the event carries the state at the time
emit_event(event, st) == [event |-> event, state |-> st]

Ret(op, r) ==
    [NoCall EXCEPT !.op = op, !.r = r,
                   !.prev = [op |-> call.op, closes |-> call.closes]]

MagicSet ==
    {HEAD, ZERO4, <<68, 65, 69, 72>>, <<104, 101, 97, 100>>,
     <<72, 69, 65, 0>>, <<0, 69, 65, 68>>}

CardCodes == {250, 0}

GoodBufs == {Buf(HEAD, HEAD, c, v) : c \in CardCodes, v \in 0..MaxVde}

BadBufs ==
    {Buf(HEAD, mg, 250, 1) : mg \in MagicSet \ {HEAD}}
    \cup {Buf(ZERO4, ZERO4, 250, 1), Buf(ZERO4, HEAD, 250, 1),
          [Buf(HEAD, HEAD, 250, 1) EXCEPT !.len = 256]}

SessionBufs == GoodBufs \cup BadBufs

Signatures == {GPT_MSDATA_GUID, "00000000-0000-0000-0000-000000000000", ""}

\* the outcomes <<presence read, header read>> of the two reads authenticate
\* makes of the header region: the bytes of a buffer the device presents, or
\* an error of the first or of the second read
AuthReads(bufs) ==
    {<<RdOk(h.first4), RdOk(h)>> : h \in bufs}
    \cup {<<RdErr, RdErr>>, <<RdOk(HEAD), RdErr>>}

\* get_xci_header reads the device only when the session is not authenticated
SizeReads(m, bufs) ==
    IF cart_authenticated(m) THEN {<<RdErr, RdErr>>} ELSE AuthReads(bufs)

Idle == ~sdump.active

SConnect ==
    /\ Idle
    /\ \E found \in BOOLEAN, opened \in BOOLEAN, fwok \in BOOLEAN,
          sig \in Signatures :
         /\ (~found) => (opened /\ fwok /\ sig = GPT_MSDATA_GUID)
         /\ (~opened) => (fwok /\ sig = GPT_MSDATA_GUID)
         /\ (sig # GPT_MSDATA_GUID) => fwok
         /\ LET c == MIGFlash_connect(mig, found, opened, sig, fwok) IN
              /\ mig' = c.m
              /\ call' = [Ret("connect", c.r) EXCEPT
                              !.a = c.opens, !.closes = c.closes,
                              !.msg = c.msg]
    /\ sdump' = NoDump
    /\ UNCHANGED <<dev, controllerVars, monitorVars, bio>>

\* the property cart_inserted; the 4 bytes at the header offset are a magic
\* of MagicSet or the read fails.  call.a is the number of reads issued,
\* call.b is 1 when a read was issued and returned b'HEAD'.
SCartInserted ==
    /\ Idle
    /\ \E rd \in {RdOk(x) : x \in MagicSet} \cup {RdErr} :
         /\ mig' = cart_inserted_session(mig, rd)
         /\ call' = [Ret("cart_inserted",
                         IF cart_inserted(mig, rd) THEN "True" ELSE "False")
                        EXCEPT
                         !.a = IF mig.connected THEN 1 ELSE 0,
                         !.b = IF mig.connected /\ rd = RdOk(HEAD)
                               THEN 1 ELSE 0]
    /\ sdump' = NoDump
    /\ UNCHANGED <<dev, controllerVars, monitorVars, bio>>

SDisconnect ==
    /\ Idle
    /\ mig' = MIGFlash_disconnect(mig)
    /\ call' = [Ret("disconnect", "None") EXCEPT
                    !.closes = disconnect_closes(mig)]
    /\ sdump' = NoDump
    /\ UNCHANGED <<dev, controllerVars, monitorVars, bio>>

SAuthenticate ==
    /\ Idle
    /\ \E rds \in AuthReads(SessionBufs) :
         LET a == MIGFlash_authenticate(mig, rds[1], rds[2]) IN
         /\ mig' = a.m
         /\ call' = [Ret("authenticate", a.r) EXCEPT
                         !.a = a.reads,
                         !.b = IF rds[1] = RdOk(HEAD) THEN 1 ELSE 0,
                         !.msg = a.msg]
    /\ sdump' = NoDump
    /\ UNCHANGED <<dev, controllerVars, monitorVars, bio>>

SGetXciSize ==
    /\ Idle
    /\ \E rds \in SizeReads(mig, SessionBufs) :
         LET g == get_xci_size(mig, rds[1], rds[2]) IN
         /\ mig' = g.m
         /\ call' = [Ret("get_xci_size", g.r) EXCEPT !.a = g.total, !.b = g.used]
    /\ sdump' = NoDump
    /\ UNCHANGED <<dev, controllerVars, monitorVars, bio>>

\* read_xci(offset, length); the device returns n sectors or fails
SReadXci ==
    /\ Idle
    /\ \E offset \in 0..(GiB + 1), length \in 0..MaxLength :
         LET r == read_xci(mig, offset, length) IN
         \E res \in IF r = "read" THEN {"ok", "OSError"} ELSE {r} :
             call' = [Ret("read_xci", res) EXCEPT
                         !.a = offset, !.b = length, !.issued = (r = "read")]
    /\ sdump' = NoDump
    /\ UNCHANGED <<mig, dev, controllerVars, monitorVars, bio>>

SDumpBegin ==
    /\ Idle
    /\ \E trimmed \in BOOLEAN, rds \in SizeReads(mig, SessionBufs) :
         LET b == dump_begin(mig, trimmed, rds[1], rds[2]) IN
         /\ mig' = b.m
         /\ IF b.r # "ok"
            THEN call' = Ret("dump_xci", b.r) /\ sdump' = NoDump
            ELSE IF dump_more(b.d)
                 THEN call' = Ret("dump_xci", "running") /\ sdump' = b.d
                 ELSE /\ call' = Ret("dump_xci", "True")
                      /\ sdump' = [b.d EXCEPT !.active = FALSE]
    /\ UNCHANGED <<dev, controllerVars, monitorVars, bio>>

\* one pass of the dump loop: the chunk read (n sectors, or an error), the
\* write, the progress callback (which may raise to cancel), the loop test;
\* passes is the count of passes after this one
DumpPass(passes) ==
    /\ sdump.active
    /\ LET r == read_xci(mig, sdump.offset, read_size(sdump))
           s == [sdump EXCEPT !.passes = passes]
       IN
       IF r # "read"
       THEN /\ call' = [call EXCEPT !.r = r]
            /\ sdump' = [s EXCEPT !.active = FALSE]
            /\ mig' = dump_raise(mig)
       ELSE \/ /\ call' = [call EXCEPT !.r = "OSError"]
               /\ sdump' = [s EXCEPT !.active = FALSE]
               /\ mig' = dump_raise(mig)
            \/ \E n \in 0..read_size(s), cancel \in BOOLEAN :
                 LET d == dump_progress(dump_chunk(s, n)) IN
                 IF cancel
                 THEN /\ call' = [call EXCEPT !.r = "InterruptedError"]
                      /\ sdump' = [d EXCEPT !.active = FALSE]
                      /\ mig' = dump_raise(mig)
                 ELSE /\ mig' = mig
                      /\ IF dump_more(d)
                         THEN call' = call /\ sdump' = d
                         ELSE /\ call' = [call EXCEPT !.r = "True"]
                              /\ sdump' = [d EXCEPT !.active = FALSE]
    /\ UNCHANGED <<dev, controllerVars, monitorVars, bio>>

\* a pass of the loop in SpecSession, which does not count the passes
SDumpChunk == DumpPass(sdump.passes)

InitSession ==
    /\ mig = NewMIGFlash
    /\ dev = NoDevice
    /\ call = NoCall
    /\ sdump = NoDump
    /\ state = "DISCONNECTED"
    /\ cached = FALSE
    /\ has_mig = FALSE
    /\ lock = 0
    /\ abort_flag = FALSE
    /\ monitoring = FALSE
    /\ workers = [i \in Workers |-> NoWorker]
    /\ mon = NoMonitor
    /\ samples = <<>>
    /\ edges = <<>>
    /\ lost = FALSE
    /\ mt = NoThreads
    /\ pt = [clock |-> 0, spawned |-> FALSE, active |-> FALSE,
             start_time |-> 0, last_update |-> 0, calls |-> 0,
             events |-> <<>>, asked |-> FALSE, result |-> ""]
    /\ bio = NoIO

NextSession ==
    \/ SConnect
    \/ SDisconnect
    \/ SCartInserted
    \/ SAuthenticate
    \/ SGetXciSize
    \/ SReadXci
    \/ SDumpBegin
    \/ SDumpChunk

SpecSession == InitSession /\ [][NextSession]_vars

(***************************************************************************)
(* Claims checked under SpecSession.                                       *)
(***************************************************************************)

\* C4: read_xci(offset, length) on an authenticated session fails with
\* OutOfRange, issuing no device read, whenever offset + length exceeds the
\* cartridge capacity total; at offset = total a read of length 0 is not
\* refused.
C4_ReadXciOutOfRange ==
    (call.op = "read_xci" /\ cart_authenticated(mig)) =>
        LET total == mig.cart_info.size IN
        /\ (call.a + call.b > total) => (call.r = "OutOfRange" /\ ~call.issued)
        /\ (call.a = total /\ call.b = 0) => (call.r # "OutOfRange")

\* C10: a dump_xci that returns True has written exactly dump_size sectors,
\* dump_size being the used size when trimmed and the total size otherwise, in
\* writes of at most one chunk, and its last progress callback reported
\* (dump_size, dump_size).
C10_DumpWritesDumpSize ==
    (call.op = "dump_xci" /\ call.r = "True") =>
        /\ Len(sdump.file) = sdump.dump_size
        /\ sdump.dump_size = IF sdump.trimmed
                             THEN mig.xci_header.valid_data_end
                             ELSE cart_size_bytes(mig.xci_header)
        /\ sdump.maxw <= ChunkSize
        /\ sdump.dump_size > 0 => sdump.called
        /\ sdump.called => sdump.cb = <<sdump.dump_size, sdump.dump_size>>

\* a trimmed dump of more than one chunk has completed
C10_Witness ==
    /\ call.op = "dump_xci" /\ call.r = "True"
    /\ sdump.trimmed /\ sdump.dump_size > ChunkSize
    /\ Len(sdump.file) = sdump.dump_size /\ sdump.called

\* C16: a connect that fails raises a ConnectionError and leaves the session
\* not connected with no handle open: the handle it opened (call.a = 1) has
\* been closed, once, before the error reaches the caller, and the error of
\* every failure after the open is the one that reports a device that is not
\* a MIG-Flash.
C16_FailedConnectClosesHandle ==
    (call.op = "connect" /\ call.r # "True") =>
        /\ call.r = "ConnectionError"
        /\ ~mig.connected /\ mig.device # "Open"
        /\ call.closes = call.a
        /\ (call.a = 1) =>
              (call.msg = "Failed to connect: Device is not a valid MIG-Flash")

C16_Witness ==
    /\ call.op = "connect" /\ call.r = "ConnectionError"
    /\ call.a = 1 /\ call.closes = 1
    /\ mig.device = "Closed" /\ ~mig.connected

\* C17: the size and extent fields of a header are used only when the header
\* is valid: the header whose fields get_xci_size returns, or a dump takes
\* its size from, has the magic 'HEAD', also after a successful authenticate
\* was followed by a failed one.
C17_SizesFromValidHeaderOnly ==
    /\ (call.op = "get_xci_size" /\ call.r = "ok") => is_valid(mig.xci_header)
    /\ (call.op = "dump_xci" /\ call.r \in {"running", "True"}) =>
          is_valid(mig.xci_header)

\* C19: get_xci_size returns (total, used) when the session is authenticated
\* and otherwise fails, without performing the authentication itself: in
\* either case it leaves the authentication state of the session as it was.
C19_GetXciSizeDoesNotAuthenticate ==
    [][(call'.op = "get_xci_size") =>
          /\ mig'.cart_info = mig.cart_info
          /\ IF cart_authenticated(mig)
             THEN /\ call'.r = "ok"
                  /\ call'.a = cart_size_bytes(mig.xci_header)
                  /\ call'.b = mig.xci_header.valid_data_end
             ELSE call'.r # "ok"]_vars

\* C20: during a dump no read of the image extends past the capacity total
\* of the cartridge: the chunk read the loop is about to issue satisfies
\* offset + length <= total and nothing beyond total has been written, also
\* for a header whose used size exceeds total and for an unknown capacity
\* code (total = 0).
C20_DumpReadsWithinTotal ==
    LET total == cart_size_bytes(mig.xci_header) IN
    /\ sdump.active => (sdump.offset + read_size(sdump) <= total)
    /\ (call.op = "dump_xci") => (Len(sdump.file) <= total)

\* C22: a dump_xci that ends by a cancellation from the progress callback or
\* by a failed chunk read leaves the session authenticated, with the cached
\* header and cartridge info it had, so that a new dump starts without
\* reading the header region again.
C22_FailedDumpStaysAuthenticated ==
    [][(/\ sdump.active /\ ~sdump'.active
        /\ call'.r \in {"InterruptedError", "OSError"}) =>
          /\ cart_authenticated(mig')
          /\ mig'.xci_header = mig.xci_header
          /\ mig'.cart_info = mig.cart_info
          /\ dump_begin(mig', TRUE, RdErr, RdErr).r = "ok"]_vars

C22_Witness ==
    /\ call.op = "dump_xci" /\ call.r = "InterruptedError"
    /\ ~sdump.active /\ Len(sdump.file) > 0
    /\ cart_authenticated(mig)

\* C27: authenticate on a connected session whose presence read does not
\* return the magic raises RuntimeError "No cartridge inserted" without
\* reading the header region and leaves the cached header and CartridgeInfo
\* as they were; when the cartridge is inserted and the parsed header is
\* invalid it returns False (authentication failed), not that error.
\* call.b is 1 when the presence read returned the magic, call.a the number
\* of reads of the header region.
C27_AuthenticateNeedsCartridge ==
    [][(call'.op = "authenticate" /\ mig.connected) =>
          /\ (call'.b = 0) =>
                /\ call'.r = "RuntimeError"
                /\ call'.msg = "No cartridge inserted"
                /\ call'.a = 0
                /\ mig'.xci_header = mig.xci_header
                /\ mig'.cart_info = mig.cart_info
          /\ (/\ call'.b = 1
              /\ mig'.xci_header.set
              /\ ~is_valid(mig'.xci_header)) =>
                /\ call'.r = "False"
                /\ call'.msg # "No cartridge inserted"
                /\ call'.a = 1]_vars

\* C28: a device read that fails during connect or authenticate reaches the
\* caller as an error: connect does not return True with the firmware
\* version "Unknown" in place of a failed firmware read, and an authenticate
\* that read the header region returns False only for a header it parsed as
\* invalid, never for a failed read.
C28_ReadErrorsPropagate ==
    [][/\ (call'.op = "connect" /\ call'.r = "True") =>
             mig'.fw # "Unknown"
       /\ (call'.op = "authenticate" /\ call'.a = 1 /\ call'.r = "False") =>
             (mig'.xci_header.set /\ ~is_valid(mig'.xci_header))]_vars

\* C29: cart_inserted returns true exactly when it read the 4 bytes at the
\* header offset and they equal the magic, and it leaves the connection
\* flag, the firmware version, the cached header and the CartridgeInfo of
\* the session as they were, however often it is called.
C29_PresencePollIsPure ==
    [][(call'.op = "cart_inserted") =>
          /\ (call'.r = "True") <=> (call'.b = 1)
          /\ mig'.connected = mig.connected
          /\ mig'.fw = mig.fw
          /\ mig'.xci_header = mig.xci_header
          /\ mig'.cart_info = mig.cart_info]_vars

C29_Witness ==
    /\ call.op = "cart_inserted" /\ call.prev.op = "cart_inserted"
    /\ call.r = "True" /\ call.a = 1
    /\ cart_authenticated(mig)
    /\ mig.fw = "Ver"

C27_Witness ==
    /\ call.op = "authenticate" /\ call.b = 0
    /\ call.r = "RuntimeError" /\ call.a = 0
    /\ call.prev.op = "authenticate"
    /\ mig.connected
    /\ mig.xci_header.set /\ ~is_valid(mig.xci_header)

\* C11: a trimmed and an untrimmed dump of the same image through the same
\* authenticated session: the untrimmed output is exactly total sectors long,
\* the trimmed output is a prefix of it, and a dump that returned True wrote
\* the same file as any other dump of its mode.
C11_TrimmedIsPrefixOfUntrimmed ==
    (call.op = "dump_xci" /\ call.r = "True" /\ cart_authenticated(mig)) =>
        LET t == dump_loop(dump_begin(mig, TRUE, RdErr, RdErr).d).file
            u == dump_loop(dump_begin(mig, FALSE, RdErr, RdErr).d).file
        IN /\ Len(u) = cart_size_bytes(mig.xci_header)
           /\ Len(t) <= Len(u)
           /\ SubSeq(u, 1, Len(t)) = t
           /\ sdump.file = IF sdump.trimmed THEN t ELSE u

\* C39: after every sequence of connect, disconnect, authenticate and dump
\* calls, failing ones included: a connected session holds an opened device
\* handle, an authenticated session is connected, and a session that is not
\* connected holds no cached firmware version, header or CartridgeInfo.
C39_SessionInvariant ==
    /\ mig.connected => (mig.device = "Open")
    /\ cart_authenticated(mig) => mig.connected
    /\ (~mig.connected) =>
          /\ mig.fw = "None"
          /\ ~mig.xci_header.set
          /\ ~mig.cart_info.set

\* an authenticate has failed on a session that an earlier call had
\* authenticated: the session is still connected, its handle open
C39_Witness ==
    /\ call.op = "authenticate" /\ call.r = "False"
    /\ cart_authenticated(mig)
    /\ mig.connected /\ mig.device = "Open"

(***************************************************************************)
(* SpecDumpLoop: connect and dump_xci, with the passes of the dump loop    *)
(* counted, so that a pass that reads nothing is a step like any other.    *)
(* The loop runs in the thread of the caller of dump_xci, which goes on    *)
(* to the next pass as long as the loop has not ended: the pass is weakly  *)
(* fair.  What each read returns is the device's choice.                   *)
(***************************************************************************)
LDumpPass == DumpPass(1 - sdump.passes)

NextDumpLoop ==
    \/ SConnect
    \/ SDumpBegin
    \/ LDumpPass

SpecDumpLoop == InitSession /\ [][NextDumpLoop]_vars /\ WF_vars(LDumpPass)

(***************************************************************************)
(* Claims checked under SpecDumpLoop.                                      *)
(***************************************************************************)

\* C37: the loop of dump_xci terminates under every sequence of read
\* results, short and empty reads included: a dump whose loop is running
\* eventually leaves it, returning True or raising.
C37_DumpLoopTerminates == sdump.active ~> ~sdump.active

\* C38: at every progress callback of the dump loop (a pass after which the
\* loop goes on has made one) bytesDone is the number of bytes written to
\* the destination so far, bytesDone <= bytesTotal, bytesTotal is the dump
\* size, the same as in the callback before, and bytesDone is strictly
\* greater than in the callback before.
C38_ProgressCallbackInvariant ==
    [][(sdump.active /\ sdump'.active /\ sdump'.passes # sdump.passes) =>
          /\ sdump'.called
          /\ sdump'.cb[1] = Len(sdump'.file)
          /\ sdump'.cb[1] <= sdump'.cb[2]
          /\ sdump'.cb[2] = sdump'.dump_size
          /\ sdump.called => /\ sdump'.cb[2] = sdump.cb[2]
                             /\ sdump'.cb[1] > sdump.cb[1]]_vars

(***************************************************************************)
(* SpecHeader: a connected session authenticates on a cartridge whose      *)
(* header has the magic, any capacity class code and one of the values     *)
(* HeaderVdes of valid_data_end; dev is the device, drawn at the start.    *)
(***************************************************************************)
HeaderCodes == 0..255

\* bytes 0x118..0x11F: 0, 1, 2,000,000 and 0xFFFFFF
HeaderVdes ==
    {<<0, 0, 0, 0, 0, 0, 0, 0>>, <<1, 0, 0, 0, 0, 0, 0, 0>>,
     <<128, 132, 30, 0, 0, 0, 0, 0>>, <<255, 255, 255, 0, 0, 0, 0, 0>>}

\* connect() to a MIG-Flash
HConnect ==
    /\ ~mig.connected
    /\ LET c == MIGFlash_connect(mig, TRUE, TRUE, GPT_MSDATA_GUID, TRUE) IN
         /\ mig' = c.m
         /\ call' = [Ret("connect", c.r) EXCEPT
                         !.a = c.opens, !.closes = c.closes, !.msg = c.msg]
    /\ UNCHANGED <<sdump, dev, controllerVars, monitorVars, bio>>

\* authenticate() on the cartridge with capacity code c and the bytes v of
\* valid_data_end
HAuthenticate ==
    /\ mig.connected
    /\ \E c \in HeaderCodes, v \in HeaderVdes :
         LET a == MIGFlash_authenticate(
                      mig, RdOk(HEAD),
                      RdOk([Buf(HEAD, HEAD, c, 0) EXCEPT !.vde = v]))
         IN  /\ mig' = a.m
             /\ call' = Ret("authenticate", a.r)
    /\ UNCHANGED <<sdump, dev, controllerVars, monitorVars, bio>>

NextHeader ==
    \/ HConnect
    \/ HAuthenticate

SpecHeader == InitSession /\ [][NextHeader]_vars

(***************************************************************************)
(* Claims checked under SpecHeader.                                        *)
(***************************************************************************)
\* C25: cart_size_bytes maps the capacity class codes 0xFA, 0xF8, 0xF0,
\* 0xE0, 0xE1, 0xE2 to 1, 2, 4, 8, 16, 32 GiB and every other code to 0, and
\* the used size is valid_data_end * 512; for code 0xE2 and valid_data_end
\* = 2,000,000 the session reports total = 34,359,738,368 and used =
\* 1,024,000,000 (written in base 10000, least significant digit first).
C25_DerivedSizes ==
    cart_authenticated(mig) =>
        LET h == mig.xci_header
            code == h.game_card_size
        IN  /\ exact_cart_size_bytes(h) =
                  CASE code = 250 -> <<1824, 7374, 10>>
                    [] code = 248 -> <<3648, 4748, 21>>
                    [] code = 240 -> <<7296, 9496, 42>>
                    [] code = 224 -> <<4592, 8993, 85>>
                    [] code = 225 -> <<9184, 7986, 171>>
                    [] code = 226 -> <<8368, 5973, 343>>
                    [] OTHER -> <<>>
            /\ (h.valid_data_end = 1) => (exact_trimmed_size(h) = <<512>>)
            /\ (code = 226 /\ h.valid_data_end = 2000000) =>
                  /\ exact_cart_size_bytes(h) = <<8368, 5973, 343>>
                  /\ exact_trimmed_size(h) = <<0, 2400, 10>>
            /\ mig.cart_info.size = sizes(code) * GiB
            /\ mig.cart_info.trimmed_size = h.valid_data_end

C25_Witness ==
    /\ cart_authenticated(mig)
    /\ mig.xci_header.game_card_size = 226
    /\ mig.xci_header.valid_data_end = 2000000
    /\ exact_trimmed_size(mig.xci_header) = <<0, 2400, 10>>

(***************************************************************************)
(* The monitor thread of MIGController.start_monitoring.  Its locals are   *)
(* was_connected and had_cart.  A step of the thread yields the new        *)
(* locals, the state it sets ("" for none), whether it clears the cached   *)
(* cartridge data, the event it emits ("" for none) and, when it read      *)
(* cart_inserted, the value read.                                          *)
(***************************************************************************)
MonStep(l, st, clear, ev, sampled, has) ==
    [l |-> l, st |-> st, clear |-> clear, ev |-> ev,
     sampled |-> sampled, has |-> has]

\* MIGController.is_connected; present = self._mig is not None
is_connected(present, m) == present /\ m.connected

\* the thread before its loop: is_conn = self.is_connected, present =
\* self._mig is not None when it is tested, m and rd = the session and the
\* outcome of the read of cart_inserted
monitor_start(is_conn, present, m, rd) ==
    IF is_conn /\ present
    THEN MonStep([pc |-> "loop", was_connected |-> is_conn,
                  had_cart |-> cart_inserted(m, rd)],
                 "", FALSE, "", TRUE, cart_inserted(m, rd))
    ELSE MonStep([pc |-> "loop", was_connected |-> is_conn, had_cart |-> FALSE],
                 "", FALSE, "", FALSE, FALSE)

\* a monitor that forgets the value it polled
monitor_poll_forgetful(l, is_conn, present, m, rd) ==
    IF l.was_connected /\ ~is_conn
    THEN MonStep([l EXCEPT !.was_connected = FALSE, !.had_cart = FALSE],
                 "DISCONNECTED", FALSE, "DEVICE_DISCONNECTED", FALSE, FALSE)
    ELSE IF ~is_conn \/ ~present THEN MonStep(l, "", FALSE, "", FALSE, FALSE)
    ELSE LET has_cart == cart_inserted(m, rd)
             l2 == [l EXCEPT !.was_connected = is_conn]
         IN  IF ~l.had_cart /\ has_cart
             THEN MonStep(l2, "CART_DETECTED", FALSE, "CART_INSERTED",
                          TRUE, has_cart)
             ELSE IF l.had_cart /\ ~has_cart
                  THEN MonStep(l2, "NO_CART", TRUE, "CART_REMOVED",
                               TRUE, has_cart)
                  ELSE MonStep(l2, "", FALSE, "", TRUE, has_cart)

\* one pass of the loop after the sleep: is_conn = self.is_connected at the
\* top of the pass; present = self._mig is not None when cart_inserted is
\* read (if it is None the AttributeError is swallowed and the locals keep
\* their values); m and rd as in monitor_start
monitor_poll(l, is_conn, present, m, rd) ==
    IF l.was_connected /\ ~is_conn
    THEN MonStep([l EXCEPT !.was_connected = FALSE, !.had_cart = FALSE],
                 "DISCONNECTED", FALSE, "DEVICE_DISCONNECTED", FALSE, FALSE)
    ELSE IF ~is_conn \/ ~present THEN MonStep(l, "", FALSE, "", FALSE, FALSE)
    ELSE LET has_cart == cart_inserted(m, rd)
             l2 == [l EXCEPT !.was_connected = is_conn, !.had_cart = has_cart]
         IN  IF ~l.had_cart /\ has_cart
             THEN MonStep(l2, "CART_DETECTED", FALSE, "CART_INSERTED",
                          TRUE, has_cart)
             ELSE IF l.had_cart /\ ~has_cart
                  THEN MonStep(l2, "NO_CART", TRUE, "CART_REMOVED",
                               TRUE, has_cart)
                  ELSE MonStep(l2, "", FALSE, "", TRUE, has_cart)

(***************************************************************************)
(* SpecMonitor: one monitor thread and its environment.  The other threads *)
(* of the program appear as the values the thread reads: is_connected, the *)
(* session behind self._mig (connected, or disconnected or replaced by     *)
(* None between the two reads of a pass), and the four bytes of the        *)
(* presence read.  samples, edges and lost record what the thread did,     *)
(* call the read_at of the cart_inserted of its last pass: "ok", or        *)
(* "OSError" when the read failed.                                         *)
(***************************************************************************)
MaxSamples == 5

ConnectedMIGFlash ==
    [NewMIGFlash EXCEPT !.device = "Open", !.connected = TRUE, !.fw = "Ver"]

PresenceReads == {RdOk(HEAD), RdOk(ZERO4), RdErr}

\* the sessions the thread can find behind self._mig once is_connected held
PolledSessions == {ConnectedMIGFlash, NewMIGFlash}

CartEvents == {"CART_INSERTED", "CART_REMOVED"}

\* what a step s of the thread does to the controller and to the record
MonitorApply(s) ==
    /\ mon' = s.l
    /\ state' = IF s.st = "" THEN state ELSE s.st
    /\ cached' = IF s.clear THEN FALSE ELSE cached
    /\ samples' = IF s.sampled THEN Append(samples, s.has) ELSE samples
    /\ edges' = IF s.ev \in CartEvents
                THEN Append(edges, <<s.ev, Len(samples')>>) ELSE edges
    /\ lost' = (lost \/ s.ev = "DEVICE_DISCONNECTED")

\* start_monitoring() and the thread up to its loop
MStartMonitoring ==
    /\ mon.pc = "none"
    /\ \E is_conn \in BOOLEAN, present \in BOOLEAN, m \in PolledSessions,
          rd \in PresenceReads :
          /\ (is_conn /\ ~present) => (m = NewMIGFlash /\ rd = RdErr)
          /\ ~is_conn => (present /\ m = NewMIGFlash /\ rd = RdErr)
          /\ (m = NewMIGFlash) => (rd = RdErr)
          /\ MonitorApply(monitor_start(is_conn, present, m, rd))
    /\ UNCHANGED <<sessionVars, dev, bio, has_mig, lock, abort_flag,
                   monitoring, workers, mt,
                   pt>>

\* one pass of the loop that reads cart_inserted
MPollCart ==
    /\ mon.pc = "loop"
    /\ Len(samples) < MaxSamples
    /\ \E m \in PolledSessions, rd \in PresenceReads :
          /\ (m = NewMIGFlash) => (rd = RdErr)
          /\ MonitorApply(monitor_poll(mon, TRUE, TRUE, m, rd))
          /\ call' = IF ~m.connected THEN NoCall
                     ELSE [NoCall EXCEPT !.op = "cart_inserted",
                                         !.issued = TRUE,
                                         !.r = IF rd.err THEN "OSError"
                                               ELSE "ok"]
    /\ UNCHANGED <<mig, sdump, dev, bio, has_mig, lock, abort_flag,
                   monitoring, workers, mt,
                   pt>>

\* one pass of the loop that finds the device not connected, or self._mig
\* None when it comes to read cart_inserted
MPollNoDevice ==
    /\ mon.pc = "loop"
    /\ Len(samples) < MaxSamples
    /\ \E is_conn \in BOOLEAN :
          MonitorApply(monitor_poll(mon, is_conn, FALSE, NewMIGFlash, RdErr))
    /\ call' = NoCall
    /\ UNCHANGED <<mig, sdump, dev, bio, has_mig, lock, abort_flag,
                   monitoring, workers, mt,
                   pt>>

NextMonitor ==
    \/ MStartMonitoring
    \/ MPollCart
    \/ MPollNoDevice

SpecMonitor == InitSession /\ [][NextMonitor]_vars

(***************************************************************************)
(* Claims checked under SpecMonitor.                                       *)
(***************************************************************************)
\* C21: a pass of the monitor whose device read fails with an I/O error is
\* no change: it emits no event, changes no controller state and leaves the
\* remembered cartridge presence as it was.
C21_FailedPollIsNoChange ==
    [][(call'.op = "cart_inserted" /\ call'.r = "OSError") =>
          /\ edges' = edges /\ lost' = lost
          /\ state' = state /\ cached' = cached
          /\ mon'.had_cart = mon.had_cart]_vars

\* C9 as stated: the monitor emits cartridge events on edges of the polled
\* value only, and for the samples [false, false, true, true, false] it emits
\* exactly two, CART_INSERTED after the second sample and CART_REMOVED after
\* the fifth.
C9_EdgesAfterSecondAndFifth ==
    (~lost /\ samples = <<FALSE, FALSE, TRUE, TRUE, FALSE>>) =>
        edges = << <<"CART_INSERTED", 2>>, <<"CART_REMOVED", 5>> >>

\* C9, amended: as long as the monitor has not seen the device disconnect, it
\* emits a cartridge event exactly with each sample that differs from the
\* sample before it (and with a first sample true taken inside the loop), the
\* event of the new value; for the samples [false, false, true, true, false]
\* these are two events, CART_INSERTED with the third sample and CART_REMOVED
\* with the fifth.
C9_EdgesOnly ==
    ~lost =>
        /\ \A i \in 1..Len(edges) :
              LET k == edges[i][2] IN
              /\ k \in 1..Len(samples)
              /\ edges[i][1] = IF samples[k] THEN "CART_INSERTED"
                                ELSE "CART_REMOVED"
              /\ (k > 1) => (samples[k - 1] # samples[k])
              /\ (k = 1) => samples[1]
        /\ \A k \in 2..Len(samples) :
              (samples[k - 1] # samples[k]) =>
                  Cardinality({i \in 1..Len(edges) : edges[i][2] = k}) = 1
        /\ \A k \in 1..Len(samples) :
              Cardinality({i \in 1..Len(edges) : edges[i][2] = k}) <= 1
        /\ (samples = <<FALSE, FALSE, TRUE, TRUE, FALSE>>) =>
              edges = << <<"CART_INSERTED", 3>>, <<"CART_REMOVED", 5>> >>

\* the monitor has polled the five samples of the scenario on a device that
\* stayed connected, and emitted the two events
C9_Witness ==
    /\ ~lost /\ mon.pc = "loop"
    /\ samples = <<FALSE, FALSE, TRUE, TRUE, FALSE>>
    /\ Len(edges) = 2

(***************************************************************************)
(* SpecStartStop: the calls start_monitoring() and stop_monitoring() of    *)
(* one thread and the monitor threads they start.  A thread is alive from  *)
(* its start to the end of its loop.                                       *)
(***************************************************************************)
Alive(i) == mt.threads[i] \notin {"none", "ended"}

\* start_monitoring(): nothing while _monitoring, else a new thread
TStartMonitoring ==
    /\ ~mt.joining
    /\ IF monitoring
       THEN UNCHANGED <<monitoring, mt>>
       ELSE /\ monitoring' = TRUE
            /\ \E i \in MonitorThreads :
                  /\ ~Alive(i)
                  /\ \A j \in 1..(i - 1) : Alive(j)
                  /\ mt' = [mt EXCEPT !.threads[i] = "test", !.thread = i]
    /\ UNCHANGED <<sessionVars, dev, bio, state, cached, has_mig, lock,
                   abort_flag, workers, mon, samples, edges, lost,
                   pt>>

\* stop_monitoring() up to the join
TStopMonitoring ==
    /\ ~mt.joining
    /\ monitoring' = FALSE
    /\ mt' = [mt EXCEPT !.joining = (mt.thread # 0)]
    /\ UNCHANGED <<sessionVars, dev, bio, state, cached, has_mig, lock,
                   abort_flag, workers, mon, samples, edges, lost,
                   pt>>

\* join(timeout=2.0) returns because the thread has ended
TJoined ==
    /\ mt.joining
    /\ ~Alive(mt.thread)
    /\ mt' = [mt EXCEPT !.joining = FALSE, !.thread = 0]
    /\ UNCHANGED <<sessionVars, dev, bio, controllerVars, mon, samples, edges,
                   lost, pt>>

\* join(timeout=2.0) returns after the timeout: the thread is still in its
\* sleep(interval) or in a pass
TJoinTimeout ==
    /\ mt.joining
    /\ mt.threads[mt.thread] \in {"sleep", "pass"}
    /\ mt' = [mt EXCEPT !.joining = FALSE, !.thread = 0]
    /\ UNCHANGED <<sessionVars, dev, bio, controllerVars, mon, samples, edges,
                   lost, pt>>

\* while self._monitoring
TLoopTest(i) ==
    /\ mt.threads[i] = "test"
    /\ mt' = [mt EXCEPT !.threads[i] =
                            IF monitoring THEN "sleep" ELSE "ended"]
    /\ UNCHANGED <<sessionVars, dev, bio, controllerVars, mon, samples, edges,
                   lost, pt>>

\* time.sleep(interval)
TSleep(i) ==
    /\ mt.threads[i] = "sleep"
    /\ mt' = [mt EXCEPT !.threads[i] = "pass"]
    /\ UNCHANGED <<sessionVars, dev, bio, controllerVars, mon, samples, edges,
                   lost, pt>>

\* the body of the loop
TPass(i) ==
    /\ mt.threads[i] = "pass"
    /\ mt' = [mt EXCEPT !.threads[i] = "test"]
    /\ UNCHANGED <<sessionVars, dev, bio, controllerVars, mon, samples, edges,
                   lost, pt>>

NextStartStop ==
    \/ TStartMonitoring
    \/ TStopMonitoring
    \/ TJoined
    \/ TJoinTimeout
    \/ \E i \in MonitorThreads : TLoopTest(i)
    \/ \E i \in MonitorThreads : TSleep(i)
    \/ \E i \in MonitorThreads : TPass(i)

SpecStartStop == InitSession /\ [][NextStartStop]_vars

(***************************************************************************)
(* Claims checked under SpecStartStop.                                     *)
(***************************************************************************)
\* C36: after stop_monitoring() has returned the monitor runs no further
\* pass of its loop (the pass is where it emits events and sets the state
\* and the cached cartridge info), until monitoring is started again.
C36_NoPassAfterStop ==
    (~monitoring /\ ~mt.joining) =>
        \A i \in MonitorThreads : mt.threads[i] # "pass"

\* C24: at most one monitor thread is alive at any time, under every
\* sequence of start_monitoring and stop_monitoring calls.
C24_OneMonitorThread ==
    Cardinality({i \in MonitorThreads : Alive(i)}) <= 1

(***************************************************************************)
(* SpecProgress: on_progress of the dump worker, called by dump_xci after  *)
(* every chunk, and time.time().  pt.clock is the clock in milliseconds;   *)
(* it is the wall clock, which may also be set back.  pt.events holds, for *)
(* each DUMP_PROGRESS event of the running dump, the reading `now` it was  *)
(* emitted at; pt.calls counts the calls of on_progress that returned, one *)
(* after each chunk of a dump of MaxCalls chunks.  pt.spawned holds from   *)
(* the return of dump_xci_async until its thread runs; pt.asked records    *)
(* that abort_dump() was called after dump_xci_async returned and before   *)
(* the last chunk was written; pt.result is how the dump ended.            *)
(***************************************************************************)
throttle_off(now, last_update) == FALSE

\* if now - last_update < 0.1: return
throttle(now, last_update) == now - last_update < 100

\* time passes, or the clock is adjusted
PTick ==
    /\ \E d \in {-50, 0, 50, 100} :
         /\ pt.clock + d \in 0..MaxClock
         /\ pt' = [pt EXCEPT !.clock = pt.clock + d]
    /\ UNCHANGED <<sessionVars, dev, bio, controllerVars, mon, samples, edges,
                   lost, mt>>

\* dump_xci_async(): the thread is started and the call returns
PDumpXciAsync ==
    /\ ~pt.spawned
    /\ ~pt.active
    /\ pt' = [pt EXCEPT !.spawned = TRUE, !.calls = 0, !.events = <<>>,
                        !.asked = FALSE, !.result = ""]
    /\ UNCHANGED <<sessionVars, dev, bio, controllerVars, mon, samples, edges,
                   lost, mt>>

\* the worker up to start_time = time.time(); last_update = start_time
PStart ==
    /\ pt.spawned
    /\ pt' = [pt EXCEPT !.spawned = FALSE, !.active = TRUE,
                        !.start_time = pt.clock, !.last_update = pt.clock]
    /\ abort_flag' = FALSE
    /\ UNCHANGED <<sessionVars, dev, bio, state, cached, has_mig, lock,
                   monitoring, workers, mon, samples, edges, lost, mt>>

\* abort_dump() of the GUI thread
PAbort ==
    /\ abort_flag' = TRUE
    /\ pt' = [pt EXCEPT !.asked =
                  @ \/ ((pt.spawned \/ pt.active) /\ pt.calls < MaxCalls)]
    /\ UNCHANGED <<sessionVars, dev, bio, state, cached, has_mig, lock,
                   monitoring, workers, mon, samples, edges, lost, mt>>

\* on_progress(done, total) after a chunk: InterruptedError when the abort
\* flag is set, which ends the dump; nothing when throttled; else the event
PProgress ==
    /\ pt.active
    /\ pt.calls < MaxCalls
    /\ LET now == pt.clock IN
         pt' = IF abort_flag
               THEN [pt EXCEPT !.active = FALSE, !.result = "aborted"]
               ELSE IF throttle(now, pt.last_update)
               THEN [pt EXCEPT !.calls = pt.calls + 1]
               ELSE [pt EXCEPT !.calls = pt.calls + 1,
                               !.last_update = now,
                               !.events = Append(pt.events, now)]
    /\ UNCHANGED <<sessionVars, dev, bio, controllerVars, mon, samples, edges,
                   lost, mt>>

\* dump_xci returns after the callback of its last chunk, or a read fails
PEnd ==
    /\ pt.active
    /\ pt' = [pt EXCEPT !.active = FALSE,
                        !.result = IF pt.calls = MaxCalls THEN "complete"
                                   ELSE "error"]
    /\ UNCHANGED <<sessionVars, dev, bio, controllerVars, mon, samples, edges,
                   lost, mt>>

NextProgress ==
    \/ PTick
    \/ PDumpXciAsync
    \/ PStart
    \/ PAbort
    \/ PProgress
    \/ PEnd

SpecProgress == InitSession /\ [][NextProgress]_vars

(***************************************************************************)
(* Claims checked under SpecProgress.                                      *)
(***************************************************************************)
\* C33: an abort is never lost: a dump for which abort_dump() was called
\* after dump_xci_async() returned and before its last chunk was written
\* ends as aborted (or by an error of the device), never as complete,
\* whether or not its thread had begun to run when the call was made.
C33_AbortNeverLost ==
    (pt.asked /\ pt.result # "") => (pt.result \in {"aborted", "error"})

\* C26: any two consecutive DUMP_PROGRESS events of one dump are at least
\* 100 ms of clock time apart, and the first is at least 100 ms after the
\* dump started, however many chunks complete in between.
C26_ProgressThrottled ==
    \A i \in 1..Len(pt.events) :
        pt.events[i] - (IF i = 1 THEN pt.start_time ELSE pt.events[i - 1])
            >= 100

C26_Witness ==
    /\ pt.active
    /\ Len(pt.events) = 2
    /\ pt.calls = MaxCalls
    /\ pt.events[1] = pt.start_time + 100

(***************************************************************************)
(* SpecIO: the reads of the BlockDevice, each a seek followed by a read of *)
(* the one file position, as three threads issue them: the dump worker     *)
(* inside MIGFlash.dump_xci (MIGController.dump_xci takes no lock), the    *)
(* monitor reading cart_inserted (no lock), and a caller of                *)
(* MIGController.authenticate (under the lock).  bio.t[x] is the read_at    *)
(* of thread x: the offset it wants, its size, and the position the read   *)
(* was served from; the file of a dump worker holds, for each chunk it     *)
(* wrote, the device position the chunk's bytes came from.                 *)
(* SpecDumps: the workers of two dump_xci_async calls, the second made     *)
(* while the first is running and writing to another file, and a thread   *)
(* that calls MIGController.disconnect().                                  *)
(***************************************************************************)
IODumpSectors == 4

\* BlockDevice.seek
seek(b, offset) == [b EXCEPT !.pos = offset]

\* BlockDevice.read: the data comes from the current position, which advances
read(b, size) == [b EXCEPT !.pos = b.pos + size]

\* a write_sector without the test of the length
write_sector_unchecked(b, sector, data) ==
    [b |-> [seek(b, sector * SECTOR_SIZE) EXCEPT
                !.pos = @ + Len(data), !.disk[sector] = data],
     r |-> "None"]

\* BlockDevice.write_sector: ValueError unless len(data) is SECTOR_SIZE, else
\* seek(sector * SECTOR_SIZE) and write(data), which advances the position
write_sector(b, sector, data) ==
    IF Len(data) # SECTOR_SIZE THEN [b |-> b, r |-> "ValueError"]
    ELSE [b |-> [seek(b, sector * SECTOR_SIZE) EXCEPT
                     !.pos = @ + Len(data), !.disk[sector] = data],
          r |-> "None"]

\* BlockDevice.write_at: seek(offset) and write(data).  The handle is opened
\* unbuffered, so write passes the data to the device once; accepted is the
\* number of bytes the device took, which write returns and write_at drops.
write_at(b, offset, data, accepted) ==
    [b |-> [seek(b, offset) EXCEPT
                !.pos = @ + accepted,
                !.disk[offset \div SECTOR_SIZE] =
                    IF accepted = 0 THEN @ ELSE SubSeq(data, 1, accepted)],
     r |-> "None"]

\* read_at of thread x up to the end of its seek
IOSeek(x, offset, size) ==
    bio' = [seek(bio, offset) EXCEPT
                !.t[x].pc = "seeked", !.t[x].want = offset, !.t[x].size = size,
                !.t[x].done = FALSE]

\* the read of the read_at of thread x; the thread goes on at pc
IORead(x, pc, n) ==
    bio' = [read(bio, bio.t[x].size) EXCEPT
                !.t[x].pc = pc, !.t[x].got = bio.pos, !.t[x].done = TRUE,
                !.t[x].n = n]

\* dump_xci of worker x: device.read_at(XCI_DATA_OFFSET + offset, read_size);
\* once the session is disconnected read_xci raises before any device access
DumpSeek(x) ==
    /\ bio.t[x].pc = "idle"
    /\ bio.t[x].n < IODumpSectors
    /\ IF bio.device = "Open"
       THEN IOSeek(x, XCI_DATA_OFFSET + bio.t[x].n * SECTOR_SIZE,
                   Min(ChunkSize, IODumpSectors - bio.t[x].n) * SECTOR_SIZE)
       ELSE bio' = [bio EXCEPT !.t[x].pc = "failed"]
    /\ UNCHANGED <<sessionVars, dev, controllerVars, monitorVars>>

\* the read of the chunk and f.write(data); a read of a handle that was
\* closed after the seek raises
DumpRead(x) ==
    /\ bio.t[x].pc = "seeked"
    /\ IF bio.device = "Open"
       THEN bio' = [read(bio, bio.t[x].size) EXCEPT
                      !.t[x].pc = "idle", !.t[x].got = bio.pos,
                      !.t[x].done = TRUE,
                      !.t[x].n = bio.t[x].n + (bio.t[x].size \div SECTOR_SIZE),
                      !.t[x].file = Append(bio.t[x].file, bio.pos)]
       ELSE bio' = [bio EXCEPT !.t[x].pc = "failed", !.onclosed = TRUE]
    /\ UNCHANGED <<sessionVars, dev, controllerVars, monitorVars>>

\* MIGController.disconnect: with self._lock, MIGFlash.disconnect closes the
\* device and drops it
IODisconnect ==
    /\ bio.lock = ""
    /\ bio' = [bio EXCEPT !.device = "None",
                          !.closes = bio.closes + disconnect_closes(bio)]
    /\ UNCHANGED <<sessionVars, dev, controllerVars, monitorVars>>

IODumpSeek == DumpSeek("dump")

IODumpRead == DumpRead("dump")

\* the worker of a dump_xci_async called while the first one is running
IODump2Seek == DumpSeek("dump2")

IODump2Read == DumpRead("dump2")

\* cart_inserted: device.read_at(XCI_HEADER_OFFSET, 4)
IOMonitorSeek ==
    /\ bio.t["monitor"].pc = "idle"
    /\ IOSeek("monitor", XCI_HEADER_OFFSET, 4)
    /\ UNCHANGED <<sessionVars, dev, controllerVars, monitorVars>>

IOMonitorRead ==
    /\ bio.t["monitor"].pc = "seeked"
    /\ IORead("monitor", "idle", 0)
    /\ UNCHANGED <<sessionVars, dev, controllerVars, monitorVars>>

\* MIGController.authenticate: with self._lock
IOAuthLock ==
    /\ bio.t["auth"].pc = "idle"
    /\ bio.lock = ""
    /\ bio' = [bio EXCEPT !.lock = "auth", !.t["auth"].pc = "locked",
                          !.t["auth"].n = 0]
    /\ UNCHANGED <<sessionVars, dev, controllerVars, monitorVars>>

\* MIGFlash.authenticate: the presence read, then the read of the header
IOAuthSeek ==
    /\ bio.t["auth"].pc = "locked"
    /\ bio.t["auth"].n < 2
    /\ IOSeek("auth", XCI_HEADER_OFFSET,
              IF bio.t["auth"].n = 0 THEN 4 ELSE XCI_HEADER_SIZE)
    /\ UNCHANGED <<sessionVars, dev, controllerVars, monitorVars>>

IOAuthRead ==
    /\ bio.t["auth"].pc = "seeked"
    /\ IORead("auth", "locked", bio.t["auth"].n + 1)
    /\ UNCHANGED <<sessionVars, dev, controllerVars, monitorVars>>

IOAuthUnlock ==
    /\ bio.t["auth"].pc = "locked"
    /\ bio.t["auth"].n = 2
    /\ bio' = [bio EXCEPT !.lock = "", !.t["auth"].pc = "idle"]
    /\ UNCHANGED <<sessionVars, dev, controllerVars, monitorVars>>

NextIO ==
    \/ IODumpSeek
    \/ IODumpRead
    \/ IOMonitorSeek
    \/ IOMonitorRead
    \/ IOAuthLock
    \/ IOAuthSeek
    \/ IOAuthRead
    \/ IOAuthUnlock

SpecIO == InitSession /\ [][NextIO]_vars

\* write_sector(sector, data) on the open BlockDevice, data being n bytes
\* of one value; call.a is the sector, call.b is len(data)
WWriteSector ==
    \E sector \in 0..MaxSector,
       n \in {0, 1, SECTOR_SIZE - 1, SECTOR_SIZE, SECTOR_SIZE + 1,
              2 * SECTOR_SIZE} :
        LET data == [i \in 1..n |-> 170]
            w == write_sector(bio, sector, data)
        IN  /\ bio' = w.b
            /\ call' = [Ret("write_sector", w.r) EXCEPT
                            !.a = sector, !.b = Len(data)]
            /\ UNCHANGED <<mig, sdump, dev, controllerVars, monitorVars>>

\* write_at(offset, data) of one sector of data at the start of a sector,
\* the device accepting all, all but one or none of the bytes; call.a is
\* the number of bytes accepted, call.b is len(data)
WWriteAt ==
    \E sector \in 0..MaxSector :
      \E accepted \in {0, SECTOR_SIZE - 1, SECTOR_SIZE} :
        LET data == [i \in 1..SECTOR_SIZE |-> 170]
            w == write_at(bio, sector * SECTOR_SIZE, data, accepted)
        IN  /\ bio' = w.b
            /\ call' = [Ret("write_at", w.r) EXCEPT
                            !.a = accepted, !.b = Len(data)]
            /\ UNCHANGED <<mig, sdump, dev, controllerVars, monitorVars>>

NextWrite ==
    \/ WWriteSector
    \/ WWriteAt

SpecWrite == InitSession /\ [][NextWrite]_vars

(***************************************************************************)
(* Claims checked under SpecWrite.                                         *)
(***************************************************************************)
\* C30: write_sector raises ValueError (invalid sector size) for every data
\* length other than 512 bytes, and then neither seeks nor writes: the
\* position and the contents of the device are as before; data of 512 bytes
\* is written to the sector.
C30_WriteSectorChecksLength ==
    [][(call'.op = "write_sector") =>
          IF call'.b # 512
          THEN /\ call'.r = "ValueError"
               /\ bio'.pos = bio.pos
               /\ bio'.disk = bio.disk
          ELSE /\ call'.r = "None"
               /\ Len(bio'.disk[call'.a]) = 512
               /\ bio'.pos = (call'.a + 1) * 512]_vars

\* C31: write_at fails with a short-write error whenever the device accepts
\* fewer bytes than the data holds; it never returns normally after a
\* partial write.
C31_ShortWriteIsAnError ==
    (call.op = "write_at" /\ call.a < call.b) => (call.r # "None")

C30_Witness ==
    /\ call.op = "write_sector" /\ call.r = "ValueError"
    /\ call.b = 511
    /\ call.prev.op = "write_sector"
    /\ bio.pos = 1024
    /\ Len(bio.disk[1]) = 512

(***************************************************************************)
(* Claims checked under SpecIO.                                            *)
(***************************************************************************)

\* C5: every read_at returns the bytes at the offset it asked for, under
\* every interleaving of the dump worker, the monitor and a caller that holds
\* the lock: its read is served from the position of its own seek.
C5_ReadAtReturnsItsOffset ==
    \A x \in Threads : bio.t[x].done => (bio.t[x].got = bio.t[x].want)

NextDumps ==
    \/ IODumpSeek
    \/ IODumpRead
    \/ IODump2Seek
    \/ IODump2Read
    \/ IODisconnect

SpecDumps == InitSession /\ [][NextDumps]_vars

(***************************************************************************)
(* Claims checked under SpecDumps.                                         *)
(***************************************************************************)

\* C12: a dump_xci_async called while another dump_xci_async is running
\* does not corrupt the first dump's output file: the chunks the first dump
\* writes are the image bytes at offsets 0, chunk_size, ... in order,
\* whatever the second dump does.
C12_FirstDumpFileIntact ==
    \A k \in 1..Len(bio.t["dump"].file) :
        bio.t["dump"].file[k] =
            XCI_DATA_OFFSET + (k - 1) * ChunkSize * SECTOR_SIZE

\* C14: a disconnect releases the open device handle exactly once, also
\* when it races with a chunk read of a dump worker: the handle is never
\* closed twice, never left open, and no read is issued on a handle that
\* disconnect has already closed.
C14_HandleReleasedOnce ==
    /\ bio.closes <= 1
    /\ (bio.device # "Open") => (bio.closes = 1)
    /\ ~bio.onclosed

(***************************************************************************)
(* MIGController.  A device x is attached when x.sig is the partition      *)
(* GUID, and presents the header region x.hdr; a read of a detached device *)
(* fails.  In Spec the adapter may be plugged or unplugged and the         *)
(* cartridge changed between any two steps, so every step that reads the   *)
(* device meets any of the devices ControllerDevices; dev is not used.     *)
(***************************************************************************)
Attached(x) == x.sig = GPT_MSDATA_GUID

\* read_at(XCI_HEADER_OFFSET, 4) and read_at(XCI_HEADER_OFFSET, XCI_HEADER_SIZE)
PresenceRead(x) == IF Attached(x) THEN RdOk(x.hdr.first4) ELSE RdErr
HeaderRead(x) == IF Attached(x) THEN RdOk(x.hdr) ELSE RdErr

NoCartBuf == Buf(ZERO4, ZERO4, 0, 0)
BadMagicBuf == Buf(HEAD, ZERO4, 250, MaxVde)
GoodBuf == Buf(HEAD, HEAD, 250, MaxVde)

\* the values of trimmed the GUI passes to dump_xci_async (its default)
DumpModes == {TRUE}

ControllerDevices ==
    {NoDevice} \cup
    {[sig |-> GPT_MSDATA_GUID, hdr |-> h] :
        h \in {NoCartBuf, BadMagicBuf, GoodBuf}}

\* MIGController.authenticate: r is the value returned or the exception
\* raised, st the state it sets ("" for none), cache whether it copies the
\* header and the cartridge info of the session
controller_authenticate(present, m, rd4, rd) ==
    IF ~present THEN [m |-> m, r |-> "RuntimeError", st |-> "", cache |-> FALSE]
    ELSE LET a == MIGFlash_authenticate(m, rd4, rd) IN
         IF a.r = "True"
         THEN [m |-> a.m, r |-> a.r, st |-> "AUTHENTICATED", cache |-> TRUE]
         ELSE IF a.r = "False"
              THEN [m |-> a.m, r |-> a.r, st |-> "ERROR", cache |-> FALSE]
              ELSE [m |-> a.m, r |-> a.r, st |-> "", cache |-> FALSE]

Free(i) == workers[i].pc = "done"

\* threading.Thread(target=worker).start(): the thread takes the first free
\* place of the model; the records of the threads that have ended are dropped
Spawn(kind, trimmed) ==
    \E i \in Workers :
        /\ Free(i)
        /\ \A j \in 1..(i - 1) : ~Free(j)
        /\ workers' = [j \in Workers |->
                          IF j = i
                          THEN [NoWorker EXCEPT !.kind = kind, !.pc = "start",
                                                !.trimmed = trimmed]
                          ELSE IF Free(j) THEN NoWorker
                          ELSE IF kind = "connect"
                          THEN [workers[j] EXCEPT !.disc = FALSE]
                          ELSE workers[j]]

\* the end of the thread of worker w: its locals are gone
End(w) ==
    [w EXCEPT !.pc = "done", !.trimmed = FALSE, !.d = NoDump, !.stale = FALSE,
              !.disc = FALSE]

\* _emit_event from worker w
Emit(w, events) == [w EXCEPT !.ev = w.ev \o events]

\* emit DUMP_PROGRESS; ev keeps one entry for a run of DUMP_PROGRESS events
EmitProgress(w) ==
    IF w.ev # <<>> /\ w.ev[Len(w.ev)] = "DUMP_PROGRESS" THEN w
    ELSE Emit(w, <<"DUMP_PROGRESS">>)

\* the MIGFlash a dump worker is reading from is disconnected
Orphan(w) ==
    IF w.kind = "dump" /\ w.pc \in {"chunk", "progress"}
    THEN [w EXCEPT !.stale = TRUE] ELSE w

\* disconnect() is called while the thread of worker w may be running
Disconnected(w) == IF w.pc = "done" THEN w ELSE [w EXCEPT !.disc = TRUE]

InTransfer(w) == w.kind = "dump" /\ w.pc \in {"chunk", "progress"}

At(i, kind, pc) == workers[i].kind = kind /\ workers[i].pc = pc

(***************************************************************************)
(* Calls of the GUI thread.                                                *)
(***************************************************************************)
ConnectAsync ==
    /\ Spawn("connect", FALSE)
    /\ UNCHANGED <<sessionVars, dev, state, cached, has_mig, lock, abort_flag,
                   monitoring, monitorVars, bio>>

AuthenticateAsync ==
    /\ Spawn("authenticate", FALSE)
    /\ UNCHANGED <<sessionVars, dev, state, cached, has_mig, lock, abort_flag,
                   monitoring, monitorVars, bio>>

DumpXciAsync ==
    /\ \E trimmed \in DumpModes : Spawn("dump", trimmed)
    /\ UNCHANGED <<sessionVars, dev, state, cached, has_mig, lock, abort_flag,
                   monitoring, monitorVars, bio>>

AbortDump ==
    /\ abort_flag' = TRUE
    /\ workers' = [i \in Workers |->
                      IF InTransfer(workers[i]) /\ ~workers[i].aborted
                      THEN [workers[i] EXCEPT !.aborted = TRUE]
                      ELSE workers[i]]
    /\ UNCHANGED <<sessionVars, dev, state, cached, has_mig, lock, monitoring,
                   monitorVars, bio>>

Disconnect ==
    /\ lock = 0
    /\ mig' = NewMIGFlash
    /\ has_mig' = FALSE
    /\ cached' = FALSE
    /\ state' = "DISCONNECTED"
    /\ workers' = [i \in Workers |-> Disconnected(Orphan(workers[i]))]
    /\ UNCHANGED <<call, sdump, dev, lock, abort_flag, monitoring,
                   monitorVars, bio>>

(***************************************************************************)
(* The worker of connect_async.                                            *)
(***************************************************************************)
\* _set_state(CONNECTING); emit DEVICE_CONNECTED "Connecting..."
WConnectStart(i) ==
    /\ At(i, "connect", "start")
    /\ state' = "CONNECTING"
    /\ workers' = [workers EXCEPT ![i] =
                      [Emit(@, <<"DEVICE_CONNECTED">>) EXCEPT
                          !.pc = "connect", !.final = "CONNECTING"]]
    /\ UNCHANGED <<sessionVars, dev, cached, has_mig, lock, abort_flag,
                   monitoring, monitorVars, bio>>

\* connect() under the lock, up to _set_state(CONNECTED) or to the except
\* clause that sets ERROR and raises again
WConnect(i) ==
    /\ At(i, "connect", "connect")
    /\ lock = 0
    /\ has_mig' = TRUE
    /\ \E x \in ControllerDevices :
       LET c == MIGFlash_connect(NewMIGFlash, Attached(x), Attached(x),
                                 x.sig, TRUE)
           others == [j \in Workers |-> Orphan(workers[j])]
       IN  /\ mig' = c.m
           /\ IF c.r = "True"
              THEN /\ state' = "CONNECTED"
                   /\ lock' = i
                   /\ workers' = [others EXCEPT ![i] =
                                     [@ EXCEPT !.pc = "cart",
                                               !.final = "CONNECTED"]]
              ELSE /\ state' = "ERROR"
                   /\ lock' = 0
                   /\ workers' = [others EXCEPT ![i] =
                                     [@ EXCEPT !.pc = "except", !.exc = c.r,
                                               !.final = "ERROR"]]
    /\ UNCHANGED <<call, sdump, dev, cached, abort_flag, monitoring,
                   monitorVars, bio>>

\* connect(): the cartridge check, still under the lock
WConnectCart(i) ==
    /\ At(i, "connect", "cart")
    /\ lock = i
    /\ lock' = 0
    /\ \E x \in ControllerDevices :
       LET st == IF cart_inserted(mig, PresenceRead(x))
                 THEN "CART_DETECTED" ELSE "NO_CART"
       IN  /\ state' = st
           /\ workers' = [workers EXCEPT ![i] =
                             [@ EXCEPT !.pc = "emit", !.final = st]]
    /\ UNCHANGED <<sessionVars, dev, cached, has_mig, abort_flag, monitoring,
                   monitorVars, bio>>

\* emit DEVICE_CONNECTED "Connected", then the cartridge status read from
\* self._state
WConnectEmit(i) ==
    /\ At(i, "connect", "emit")
    /\ workers' = [workers EXCEPT ![i] =
                      [Emit(@, <<"DEVICE_CONNECTED",
                                 IF state = "CART_DETECTED"
                                 THEN "CART_INSERTED" ELSE "CART_REMOVED">>)
                       EXCEPT !.pc = "done"]]
    /\ UNCHANGED <<sessionVars, dev, state, cached, has_mig, lock, abort_flag,
                   monitoring, monitorVars, bio>>

\* except Exception: _set_state(ERROR); emit ERROR
WConnectExcept(i) ==
    /\ At(i, "connect", "except")
    /\ state' = "ERROR"
    /\ workers' = [workers EXCEPT ![i] =
                      [Emit(@, <<"ERROR">>) EXCEPT
                          !.pc = "done", !.final = "ERROR"]]
    /\ UNCHANGED <<sessionVars, dev, cached, has_mig, lock, abort_flag,
                   monitoring, monitorVars, bio>>

(***************************************************************************)
(* The worker of authenticate_async.                                       *)
(***************************************************************************)
\* _set_state(AUTHENTICATING); emit AUTH_STARTED
WAuthStart(i) ==
    /\ At(i, "authenticate", "start")
    /\ state' = "AUTHENTICATING"
    /\ workers' = [workers EXCEPT ![i] =
                      [Emit(@, <<"AUTH_STARTED">>) EXCEPT
                          !.pc = "auth", !.final = "AUTHENTICATING"]]
    /\ UNCHANGED <<sessionVars, dev, cached, has_mig, lock, abort_flag,
                   monitoring, monitorVars, bio>>

\* self.authenticate() and the event of its result, or its exception
WAuth(i) ==
    /\ At(i, "authenticate", "auth")
    /\ has_mig => lock = 0
    /\ \E x \in ControllerDevices :
       LET a == controller_authenticate(has_mig, mig, PresenceRead(x),
                                        HeaderRead(x))
       IN  /\ mig' = a.m
           /\ state' = IF a.st = "" THEN state ELSE a.st
           /\ cached' = (cached \/ a.cache)
           /\ workers' = [workers EXCEPT ![i] =
                 IF a.r = "True"
                 THEN [Emit(@, <<"AUTH_SUCCESS">>) EXCEPT
                          !.pc = "done", !.final = a.st]
                 ELSE IF a.r = "False"
                      THEN [Emit(@, <<"AUTH_FAILED">>) EXCEPT
                               !.pc = "done", !.final = a.st]
                      ELSE [@ EXCEPT !.pc = "except", !.exc = a.r]]
    /\ UNCHANGED <<call, sdump, dev, has_mig, lock, abort_flag, monitoring,
                   monitorVars, bio>>

\* except Exception: _set_state(ERROR); emit AUTH_FAILED
WAuthExcept(i) ==
    /\ At(i, "authenticate", "except")
    /\ state' = "ERROR"
    /\ workers' = [workers EXCEPT ![i] =
                      [Emit(@, <<"AUTH_FAILED">>) EXCEPT
                          !.pc = "done", !.final = "ERROR"]]
    /\ UNCHANGED <<sessionVars, dev, cached, has_mig, lock, abort_flag,
                   monitoring, monitorVars, bio>>

(***************************************************************************)
(* The worker of dump_xci_async.                                           *)
(***************************************************************************)
\* _abort_flag.clear(); _set_state(DUMPING)
WDumpStart(i) ==
    /\ At(i, "dump", "start")
    /\ abort_flag' = FALSE
    /\ state' = "DUMPING"
    /\ workers' = [workers EXCEPT ![i] =
                      [@ EXCEPT !.pc = "size", !.final = "DUMPING"]]
    /\ UNCHANGED <<sessionVars, dev, cached, has_mig, lock, monitoring,
                   monitorVars, bio>>

\* self._mig.get_xci_size(), outside any try: an exception ends the thread;
\* otherwise emit DUMP_STARTED
WDumpSize(i) ==
    /\ At(i, "dump", "size")
    /\ IF ~has_mig
       THEN /\ workers' = [workers EXCEPT ![i] =
                              [End(@) EXCEPT !.exc = "AttributeError"]]
            /\ mig' = mig
       ELSE \E x \in ControllerDevices :
            LET g == get_xci_size(mig, PresenceRead(x), HeaderRead(x)) IN
            /\ mig' = g.m
            /\ workers' = [workers EXCEPT ![i] =
                              IF g.r # "ok"
                              THEN [End(@) EXCEPT !.exc = g.r]
                              ELSE [Emit(@, <<"DUMP_STARTED">>) EXCEPT
                                       !.pc = "begin"]]
    /\ UNCHANGED <<call, sdump, dev, state, cached, has_mig, lock, abort_flag,
                   monitoring, monitorVars, bio>>

\* self.dump_xci(): MIGFlash.dump_xci up to its loop
WDumpBegin(i) ==
    /\ At(i, "dump", "begin")
    /\ IF ~has_mig
       THEN /\ workers' = [workers EXCEPT ![i] =
                              [@ EXCEPT !.pc = "except", !.exc = "RuntimeError"]]
            /\ mig' = mig
       ELSE \E x \in ControllerDevices :
            LET b == dump_begin(mig, workers[i].trimmed,
                                PresenceRead(x), HeaderRead(x)) IN
            /\ mig' = b.m
            /\ workers' = [workers EXCEPT ![i] =
                              IF b.r # "ok"
                              THEN [@ EXCEPT !.pc = "except", !.exc = b.r]
                              ELSE [@ EXCEPT !.d = b.d,
                                             !.pc = IF dump_more(b.d)
                                                    THEN "chunk"
                                                    ELSE "success"]]
    /\ UNCHANGED <<call, sdump, dev, state, cached, has_mig, lock, abort_flag,
                   monitoring, monitorVars, bio>>

\* one read_xci and the write of its data; ok = the device read succeeds
WDumpChunk(i) ==
    /\ At(i, "dump", "chunk")
    /\ LET w == workers[i]
           r == read_xci(IF w.stale THEN NewMIGFlash ELSE mig,
                         w.d.offset, read_size(w.d))
       IN  \E ok \in BOOLEAN :
              /\ (r # "read") => ~ok
              /\ workers' = [workers EXCEPT ![i] =
                    IF r # "read" THEN [w EXCEPT !.pc = "except", !.exc = r]
                    ELSE IF ~ok
                         THEN [w EXCEPT !.pc = "except", !.exc = "OSError"]
                         ELSE [w EXCEPT !.d = dump_chunk(w.d, read_size(w.d)),
                                        !.pc = "progress",
                                        !.after = IF w.aborted
                                                  THEN w.after + 1 ELSE 0]]
    /\ UNCHANGED <<sessionVars, dev, state, cached, has_mig, lock, abort_flag,
                   monitoring, monitorVars, bio>>

\* on_progress: InterruptedError when the abort flag is set, else a
\* DUMP_PROGRESS event unless throttled; then the loop condition
WDumpProgress(i) ==
    /\ At(i, "dump", "progress")
    /\ LET w == workers[i]
           d == dump_progress(w.d)
       IN  IF abort_flag
           THEN workers' = [workers EXCEPT ![i] =
                               [w EXCEPT !.pc = "interrupted",
                                         !.exc = "InterruptedError"]]
           ELSE \E throttled \in BOOLEAN :
                   workers' = [workers EXCEPT ![i] =
                       [(IF throttled THEN w ELSE EmitProgress(w)) EXCEPT
                           !.d = d,
                           !.pc = IF dump_more(d) THEN "chunk" ELSE "success"]]
    /\ UNCHANGED <<sessionVars, dev, state, cached, has_mig, lock, abort_flag,
                   monitoring, monitorVars, bio>>

\* the end of the worker: st = the state it sets, event = the event it emits
WDumpEnd(i, st, event) ==
    /\ state' = st
    /\ workers' = [workers EXCEPT ![i] =
                      [End(Emit(@, <<event>>)) EXCEPT !.final = st]]
    /\ UNCHANGED <<sessionVars, dev, cached, has_mig, lock, abort_flag,
                   monitoring, monitorVars, bio>>

\* success: _set_state(AUTHENTICATED); emit DUMP_COMPLETE
WDumpSuccess(i) ==
    /\ At(i, "dump", "success")
    /\ WDumpEnd(i, "AUTHENTICATED", "DUMP_COMPLETE")

\* except InterruptedError: _set_state(AUTHENTICATED); emit DUMP_ERROR
WDumpInterrupted(i) ==
    /\ At(i, "dump", "interrupted")
    /\ WDumpEnd(i, "AUTHENTICATED", "DUMP_ERROR")

\* except Exception: _set_state(ERROR); emit DUMP_ERROR
WDumpExcept(i) ==
    /\ At(i, "dump", "except")
    /\ WDumpEnd(i, "ERROR", "DUMP_ERROR")

(***************************************************************************)
(* The monitor thread in the controller, and the device.                   *)
(***************************************************************************)
\* what a step s of the monitor does to the controller
ControllerMonitorApply(s) ==
    /\ mon' = s.l
    /\ state' = IF s.st = "" THEN state ELSE s.st
    /\ cached' = IF s.clear THEN FALSE ELSE cached

\* start_monitoring() and the thread up to its loop
StartMonitoring ==
    /\ ~monitoring
    /\ monitoring' = TRUE
    /\ \E x \in ControllerDevices :
          ControllerMonitorApply(
              monitor_start(is_connected(has_mig, mig), has_mig, mig,
                            PresenceRead(x)))
    /\ UNCHANGED <<sessionVars, dev, has_mig, lock, abort_flag, workers,
                   samples, edges, lost, mt,
                   pt, bio>>

\* one pass of the monitor loop; it takes no lock
MonitorPoll ==
    /\ monitoring
    /\ mon.pc = "loop"
    /\ \E x \in ControllerDevices :
          ControllerMonitorApply(
              monitor_poll(mon, is_connected(has_mig, mig), has_mig, mig,
                           PresenceRead(x)))
    /\ UNCHANGED <<sessionVars, dev, has_mig, lock, abort_flag, monitoring,
                   workers, samples, edges, lost, mt, pt,
                   bio>>

Next ==
    \/ ConnectAsync
    \/ AuthenticateAsync
    \/ DumpXciAsync
    \/ AbortDump
    \/ Disconnect
    \/ StartMonitoring
    \/ MonitorPoll
    \/ \E i \in Workers : WConnectStart(i)
    \/ \E i \in Workers : WConnect(i)
    \/ \E i \in Workers : WConnectCart(i)
    \/ \E i \in Workers : WConnectEmit(i)
    \/ \E i \in Workers : WConnectExcept(i)
    \/ \E i \in Workers : WAuthStart(i)
    \/ \E i \in Workers : WAuth(i)
    \/ \E i \in Workers : WAuthExcept(i)
    \/ \E i \in Workers : WDumpStart(i)
    \/ \E i \in Workers : WDumpSize(i)
    \/ \E i \in Workers : WDumpBegin(i)
    \/ \E i \in Workers : WDumpChunk(i)
    \/ \E i \in Workers : WDumpProgress(i)
    \/ \E i \in Workers : WDumpSuccess(i)
    \/ \E i \in Workers : WDumpInterrupted(i)
    \/ \E i \in Workers : WDumpExcept(i)

Spec == InitSession /\ [][Next]_vars

(***************************************************************************)
(* Claims checked under Spec.                                              *)
(***************************************************************************)

\* C1: at most one worker of connect_async, authenticate_async or
\* dump_xci_async is in flight at any time: a call made while a worker has
\* not ended starts no second worker.
C1_OneWorkerInFlight ==
    Cardinality({i \in Workers : ~Free(i)}) <= 1

\* C2: every change of the controller state is a transition of the state
\* table (with the steps through Connecting and Authenticating, and the
\* removal of a detected cartridge, counted as in the table).
C2_StateTable ==
    [][(state' # state) =>
          \/ state' = "DISCONNECTED"
          \/ <<state, state'>> \in
                {<<"DISCONNECTED", "CONNECTING">>, <<"DISCONNECTED", "CONNECTED">>,
                 <<"DISCONNECTED", "ERROR">>, <<"CONNECTING", "CONNECTED">>,
                 <<"CONNECTING", "ERROR">>, <<"CONNECTED", "NO_CART">>,
                 <<"CONNECTED", "CART_DETECTED">>, <<"NO_CART", "CART_DETECTED">>,
                 <<"CART_DETECTED", "NO_CART">>,
                 <<"CART_DETECTED", "AUTHENTICATING">>,
                 <<"CART_DETECTED", "AUTHENTICATED">>, <<"CART_DETECTED", "ERROR">>,
                 <<"AUTHENTICATING", "AUTHENTICATED">>,
                 <<"AUTHENTICATING", "ERROR">>, <<"AUTHENTICATED", "DUMPING">>,
                 <<"DUMPING", "AUTHENTICATED">>, <<"DUMPING", "ERROR">>}]_vars

\* C6: a worker that an error has ended has emitted a terminal failure event
\* (ERROR, AUTH_FAILED or DUMP_ERROR) as its last event, and a dump worker
\* never ends with DUMPING as the state it last set.
C6_ErrorsBecomeEvents ==
    \A i \in Workers :
        LET w == workers[i] IN
        (w.kind # "none" /\ w.pc = "done") =>
            /\ (w.exc # "") =>
                  /\ w.ev # <<>>
                  /\ w.ev[Len(w.ev)] \in {"ERROR", "AUTH_FAILED", "DUMP_ERROR"}
            /\ (w.kind = "dump") => (w.final # "DUMPING")

\* C7: once abort_dump() has been called during the transfer of a dump, its
\* worker writes at most one further chunk, and when it ends (by the abort, or
\* having completed) the state it sets is AUTHENTICATED.
C7_AbortStopsWithinOneChunk ==
    \A i \in Workers :
        LET w == workers[i] IN
        (w.kind = "dump" /\ w.aborted) =>
            /\ w.after <= 1
            /\ (w.pc = "done" /\ w.exc \in {"", "InterruptedError"}) =>
                  (w.final = "AUTHENTICATED")

\* C8: the events of each async operation come in program order: one Started
\* event, then Progress events (dump only), then one terminal event, and
\* nothing after it (the cartridge status that connect_async reports after
\* its success counted with the success); a worker that has ended has
\* emitted such a complete sequence, a running one a beginning of one.
C8_EventOrder ==
    \A i \in Workers :
        LET w == workers[i]
            complete ==
                CASE w.kind = "connect" ->
                        {<<"DEVICE_CONNECTED", "DEVICE_CONNECTED", "CART_INSERTED">>,
                         <<"DEVICE_CONNECTED", "DEVICE_CONNECTED", "CART_REMOVED">>,
                         <<"DEVICE_CONNECTED", "ERROR">>}
                  [] w.kind = "authenticate" ->
                        {<<"AUTH_STARTED", "AUTH_SUCCESS">>,
                         <<"AUTH_STARTED", "AUTH_FAILED">>}
                  [] OTHER ->
                        {<<"DUMP_STARTED">> \o p \o <<t>> :
                            p \in {<<>>, <<"DUMP_PROGRESS">>},
                            t \in {"DUMP_COMPLETE", "DUMP_ERROR"}}
        IN  (w.kind # "none") =>
                IF w.pc = "done" THEN w.ev \in complete
                ELSE \E c \in complete :
                        /\ Len(w.ev) < Len(c)
                        /\ w.ev = SubSeq(c, 1, Len(w.ev))

\* C15: disconnect() leaves the controller DISCONNECTED, and the state stays
\* DISCONNECTED until the next connect is requested, also when a worker
\* thread was still running at the time of the call.
C15_StaysDisconnected ==
    (\E i \in Workers : workers[i].disc) => (state = "DISCONNECTED")

\* C32: once the controller is AUTHENTICATED after a connect that found the
\* cartridge (its worker emitted CART_INSERTED), a pass of the monitor that
\* finds the cartridge inserted leaves it AUTHENTICATED, also for a monitor
\* started before connect, whose first pass on the connection this is.
C32_MonitorKeepsAuthenticated ==
    [][(/\ state = "AUTHENTICATED"
        /\ \E i \in Workers :
              /\ workers[i].kind = "connect"
              /\ \E k \in 1..Len(workers[i].ev) :
                    workers[i].ev[k] = "CART_INSERTED"
        /\ mon.pc = "loop" /\ ~mon.was_connected
        /\ mon' # mon /\ mon'.had_cart) =>
          state' = "AUTHENTICATED"]_vars

\* C18: the cartridge data are cleared when the monitor detects the removal
\* of the cartridge: after the pass of the monitor that finds the cartridge
\* gone from a connected device, neither the controller nor the session
\* reports an authenticated cartridge, so that read_xci and dump_xci are
\* refused until a new authenticate.
C18_RemovalClearsAuthentication ==
    [][(/\ mon.pc = "loop" /\ mon.had_cart
        /\ ~mon'.had_cart /\ mon'.was_connected)
          => (~cached' /\ ~cart_authenticated(mig'))]_vars

(***************************************************************************)
(* SpecSync: the synchronous calls of MIGController made by one thread, on *)
(* the device dev: connect(), authenticate(), disconnect().  call is the   *)
(* call just made and what it returned or raised.  start_monitoring() adds *)
(* the monitor thread, whose passes run between the calls; a pass appears  *)
(* in call as the operation "monitor" with the event it emitted.           *)
(***************************************************************************)
\* no device, a block device that is not a MIG-Flash, or a MIG-Flash
SyncDevices ==
    {NoDevice, [NoDevice EXCEPT !.sig = "00000000-0000-0000-0000-000000000000"]}
    \cup {[sig |-> GPT_MSDATA_GUID, hdr |-> h] : h \in SessionBufs}

\* connect()
SyncConnect ==
    /\ has_mig' = TRUE
    /\ LET c == MIGFlash_connect(NewMIGFlash, dev.sig # "", dev.sig # "",
                                 dev.sig, TRUE)
       IN  /\ mig' = c.m
           /\ call' = [Ret("connect", c.r) EXCEPT !.closes = c.closes,
                                                  !.msg = c.msg]
           /\ state' = IF c.r # "True" THEN "ERROR"
                       ELSE IF cart_inserted(c.m, PresenceRead(dev))
                            THEN "CART_DETECTED" ELSE "NO_CART"
    /\ UNCHANGED <<sdump, dev, cached, lock, abort_flag, monitoring, workers,
                   monitorVars, bio>>

\* authenticate(): an exception leaves the state as it is
SyncAuthenticate ==
    /\ LET a == controller_authenticate(has_mig, mig, PresenceRead(dev),
                                        HeaderRead(dev))
       IN  /\ mig' = a.m
           /\ call' = Ret("authenticate", a.r)
           /\ state' = IF a.st = "" THEN state ELSE a.st
           /\ cached' = (cached \/ a.cache)
    /\ UNCHANGED <<sdump, dev, has_mig, lock, abort_flag, monitoring, workers,
                   monitorVars, bio>>

\* disconnect()
SyncDisconnect ==
    /\ mig' = IF has_mig THEN MIGFlash_disconnect(mig) ELSE mig
    /\ has_mig' = FALSE
    /\ cached' = FALSE
    /\ state' = "DISCONNECTED"
    /\ call' = [Ret("disconnect", "None") EXCEPT
                    !.closes = IF has_mig THEN disconnect_closes(mig) ELSE 0,
                    !.events = <<emit_event("DEVICE_DISCONNECTED", state')>>]
    /\ UNCHANGED <<sdump, dev, lock, abort_flag, monitoring, workers,
                   monitorVars, bio>>

\* start_monitoring() and its thread up to the loop
SyncStartMonitoring ==
    /\ ~monitoring
    /\ monitoring' = TRUE
    /\ ControllerMonitorApply(
           monitor_start(is_connected(has_mig, mig), has_mig, mig,
                         PresenceRead(dev)))
    /\ call' = Ret("start_monitoring", "None")
    /\ UNCHANGED <<mig, sdump, dev, has_mig, lock, abort_flag, workers,
                   samples, edges, lost, mt, pt, bio>>

\* one pass of the monitor loop on the device
SyncMonitorPoll ==
    /\ monitoring
    /\ mon.pc = "loop"
    /\ LET s == monitor_poll(mon, is_connected(has_mig, mig), has_mig, mig,
                             PresenceRead(dev))
       IN  /\ ControllerMonitorApply(s)
           /\ call' = [Ret("monitor", "None") EXCEPT
                           !.events = IF s.ev = "" THEN <<>>
                                      ELSE <<emit_event(s.ev, state')>>]
    /\ UNCHANGED <<mig, sdump, dev, has_mig, lock, abort_flag, monitoring,
                   workers, samples, edges, lost, mt, pt, bio>>

\* the adapter is plugged or unplugged, the cartridge inserted or removed
SyncDeviceChange ==
    /\ \E x \in SyncDevices \ {dev} : dev' = x
    /\ call' = NoCall
    /\ UNCHANGED <<mig, sdump, controllerVars, monitorVars, bio>>

NextSync ==
    \/ SyncConnect
    \/ SyncAuthenticate
    \/ SyncDisconnect
    \/ SyncStartMonitoring
    \/ SyncMonitorPoll
    \/ SyncDeviceChange

SpecSync == InitSession /\ [][NextSync]_vars

(***************************************************************************)
(* Claims checked under SpecSync.                                          *)
(***************************************************************************)

\* C3: no header whose bytes 0x100..0x103 differ from 'HEAD' is valid, and an
\* authenticate on a connected device presenting such a header leaves the
\* controller in ERROR.
C3_BadMagicFaults ==
    /\ \A b \in SessionBufs :
          (b.len >= XCI_HEADER_SIZE /\ b.magic # HEAD) =>
              ~is_valid(from_bytes(b).h)
    /\ (/\ call.op = "authenticate"
        /\ call.r # "ConnectionError"
        /\ has_mig /\ Attached(dev)
        /\ dev.hdr.magic # HEAD) => (state = "ERROR")

\* C23: the subscriber is notified of every state transition: a call of the
\* controller that changes the state delivers an event after the change, and
\* the last event it delivers carries the state the call leaves.
C23_EveryTransitionNotified ==
    [][(state' # state) =>
          /\ call'.events # <<>>
          /\ call'.events[Len(call'.events)].state = state']_vars

\* C34: a disconnect() made while monitoring is running gives the
\* subscriber one DEVICE_DISCONNECTED: the pass of the monitor that follows
\* the call, which has emitted the event, emits no second one.
C34_OneDisconnectedEvent ==
    [][(/\ call.op = "disconnect"
        /\ call.events = <<emit_event("DEVICE_DISCONNECTED", "DISCONNECTED")>>
        /\ call'.op = "monitor") =>
          \A k \in 1..Len(call'.events) :
              call'.events[k].event # "DEVICE_DISCONNECTED"]_vars

\* C35: the controller holds a cached header and cartridge info only while
\* its state is AUTHENTICATED or DUMPING, also after an authenticate that
\* fails on a controller that was authenticated.
C35_CachedOnlyWhenAuthenticated ==
    cached => (state \in {"AUTHENTICATED", "DUMPING"})

\* C13: BlockDevice.close(), MIGFlash.disconnect() and
\* MIGController.disconnect() are idempotent: a disconnect() that follows a
\* disconnect() raises nothing, closes no handle and leaves the controller and
\* the session as the first one left them; the two close() calls of a connect
\* that fails verification close the handle once.
C13_DisconnectIdempotent ==
    /\ (call.op = "disconnect" /\ call.prev.op = "disconnect") =>
          /\ call.r = "None" /\ call.closes = 0
          /\ mig = NewMIGFlash /\ ~has_mig /\ ~cached
          /\ state = "DISCONNECTED"
    /\ (call.op = "connect" /\ call.r # "True") =>
          (call.closes =
              IF call.msg = "Failed to connect: Device is not a valid MIG-Flash"
              THEN 1 ELSE 0)

C13_Witness ==
    /\ call.op = "disconnect"
    /\ call.prev = [op |-> "disconnect", closes |-> 1]
    /\ call.closes = 0 /\ mig.device = "None"

====
